---- MODULE Spec2Model ----
(***************************************************************************)
(* A model of the project/development aggregation code of cville-eda:      *)
(* identifier normalization, the parent/child relationship graph and its   *)
(* traversal (src/permits), and the grouping of Albemarle plans into       *)
(* projects (src/permits/albemarle).                                       *)
(*                                                                         *)
(* Strings of the program that are inspected character by character        *)
(* (identifiers, addresses, parcel numbers) are sequences of one-character *)
(* strings: "44910.00" is <<"4","4","9","1","0",".","0","0">>.             *)
(***************************************************************************)
EXTENDS Integers, Sequences, FiniteSets, TLC

VARIABLES
    permits,        \* dict[str, Permit] in insertion order: a sequence of Permit records
    loaded,         \* TRUE once load_permits / load_plans has returned
    norm_fn,        \* which normalize_permit_id ran last: "permit_utils" or "analyze_project"
    norm_arg,       \* the pid last given to normalize_permit_id
    norm_result,    \* what normalize_permit_id returned for it
    norm_twice,     \* what normalize_permit_id returned for norm_result
    graph_fn,       \* which build_relationship_graph built the maps: "build_site",
                    \* "analyze_project", or "none" before any ran
    children_map,   \* parent identifier -> set of child identifiers
    parents_map,    \* child identifier -> set of parent identifiers
    trav_fn,        \* the traversal running: "find_related_permits", "find_all_related"
    trav_pc,        \* "idle", "loop" (inside `while queue`), "done" (returned)
    start_ids,      \* the traversal's seeds
    visited,        \* the traversal's visited set
    queue,          \* the traversal's work stack (popped from the end)
    expanded,       \* history: the identifiers that passed the visited check
    reexpanded,     \* history: TRUE once an identifier passed the visited check twice
    plans,          \* dict[str, AlbemarlePlan] in insertion order: a sequence of plans
    sel_group,      \* the list last given to _select_primary
    sel_primary,    \* what _select_primary returned for it, as a list of at most one plan
    projects,       \* the list find_projects returned
    groups,         \* history: the groups find_projects gave to _build_project
    alb_pc,         \* "idle", or "done" once the Albemarle operation has returned
    dev_args,       \* the min_units and include_without_units of the last call
    candidates,     \* history: the projects find_developments assembled
    deduped,        \* history: the survivors of the deduplication, before the filter
    developments,   \* the list find_developments returned
    dev_pc,         \* "idle", or "done" once find_developments has returned
    sub_permit,     \* the permit given to get_submission_date
    sub_result,     \* what get_submission_date returned, as a list of at most one date
    zoning_related, \* the list of permits given to get_zoning_code
    zoning_result,  \* what get_zoning_code returned, as a list of at most one tuple
    ov_impl,        \* which apply_overrides runs: "top_developments" or "build_projects"
    ov_projects,    \* the project list given to apply_overrides
    ov_overrides,   \* the override specification given to apply_overrides
    ov_stages,      \* history: the list after the omissions, the revisions, the additions
    ov_result,      \* the list apply_overrides returned
    ov_input,       \* the list the caller passed, as it is now: the objects of ov_projects
    ov_pc,          \* "idle", or "done" once apply_overrides has returned
    tree,           \* build_permit_tree_json: pc ("idle", "walk" inside the loop over
                    \* roots, "done"), project (project["permit_id"]), related
                    \* (related_id_set), roots (those the loop has not reached yet),
                    \* stack (the frames of build_subtree, innermost last), visited,
                    \* nodes (the nodes of the tree in preorder, each with its depth)
    fetch,          \* fetch_permits.main: main ("idle", "gathering", "done", "failed"),
                    \* limit (the concurrency argument), sem (the value of the
                    \* semaphore), tasks (the state of every task), completed (the
                    \* tasks as_completed has still to hand over, first finished
                    \* first), written (the permit ids written to the output file)
    det             \* find_developments: related (the records of a project's related
                    \* set, in store order), zones (parcel_zones), runs (what the
                    \* body produced, one entry per run)

storeVars == <<permits, loaded>>
normVars == <<norm_fn, norm_arg, norm_result, norm_twice>>
graphVars == <<graph_fn, children_map, parents_map>>
travVars == <<trav_fn, trav_pc, start_ids, visited, queue, expanded, reexpanded>>
albVars == <<plans, sel_group, sel_primary, projects, groups, alb_pc>>
devVars == <<dev_args, candidates, deduped, developments, dev_pc>>
zoneVars == <<sub_permit, sub_result, zoning_related, zoning_result>>
ovVars == <<ov_impl, ov_projects, ov_overrides, ov_stages, ov_result, ov_input, ov_pc>>
treeVars == <<tree>>
fetchVars == <<fetch>>
detVars == <<det>>
vars == <<permits, loaded, norm_fn, norm_arg, norm_result, norm_twice,
          graph_fn, children_map, parents_map,
          trav_fn, trav_pc, start_ids, visited, queue, expanded, reexpanded,
          plans, sel_group, sel_primary, projects, groups, alb_pc,
          dev_args, candidates, deduped, developments, dev_pc,
          sub_permit, sub_result, zoning_related, zoning_result,
          ov_impl, ov_projects, ov_overrides, ov_stages, ov_result, ov_input, ov_pc,
          tree, fetch, det>>

\* The fields of tree, fetch and det.
tree_pc == tree.pc
tree_project == tree.project
tree_related == tree.related
tree_roots == tree.roots
tree_stack == tree.stack
tree_visited == tree.visited
tree_nodes == tree.nodes
fetch_main == fetch.main
fetch_limit == fetch.limit
fetch_sem == fetch.sem
fetch_tasks == fetch.tasks
fetch_completed == fetch.completed
fetch_written == fetch.written
det_related == det.related
det_zones == det.zones
det_runs == det.runs

-----------------------------------------------------------------------------
(* Python values *)

\* Python's None. A sequence, so that it compares with the program's strings.
None == <<"None">>

\* A variable no operation has written yet.
Unset == <<"unset">>

\* Truthiness of an optional string: `if norm:` is false for None and for "".
Truthy(s) == s # None /\ s # <<>>

\* The suffix ".00" of permit_utils.py:36-39.
Suffix00 == <<".", "0", "0">>

\* ord(c) for the characters the model's strings are made of.
Ord(c) ==
    CASE c = " " -> 32
      [] c = "-" -> 45
      [] c = "." -> 46
      [] c = "0" -> 48
      [] c = "1" -> 49
      [] c = "2" -> 50
      [] c = "3" -> 51
      [] c = "4" -> 52
      [] c = "5" -> 53
      [] c = "6" -> 54
      [] c = "7" -> 55
      [] c = "8" -> 56
      [] c = "9" -> 57
      [] c = "A" -> 65
      [] c = "M" -> 77
      [] c = "a" -> 97
      [] c = "m" -> 109

\* a < b for two str: by code point, a proper prefix first.
RECURSIVE StrLess(_, _)
StrLess(a, b) ==
    IF b = <<>> THEN FALSE
    ELSE IF a = <<>> THEN TRUE
    ELSE IF Head(a) # Head(b) THEN Ord(Head(a)) < Ord(Head(b))
    ELSE StrLess(Tail(a), Tail(b))

\* s.endswith(suf)
EndsWith(s, suf) ==
    /\ Len(s) >= Len(suf)
    /\ SubSeq(s, Len(s) - Len(suf) + 1, Len(s)) = suf

\* s[:-n]
DropLast(s, n) == SubSeq(s, 1, Len(s) - n)

\* s.startswith(prefix)
StartsWith(s, prefix) ==
    /\ Len(s) >= Len(prefix)
    /\ SubSeq(s, 1, Len(prefix)) = prefix

-----------------------------------------------------------------------------
(* The record store *)

\* The keys of the dict.
Keys(store) == {store[i].permit_id : i \in 1..Len(store)}

\* store[pid], for pid in Keys(store).
Get(store, pid) == store[CHOOSE i \in 1..Len(store) : store[i].permit_id = pid]

\* permits[permit.permit_id] = permit: a new key goes last, an existing key
\* keeps its position and takes the new value.
Put(store, permit) ==
    IF permit.permit_id \in Keys(store)
    THEN [i \in 1..Len(store) |->
            IF store[i].permit_id = permit.permit_id THEN permit ELSE store[i]]
    ELSE Append(store, permit)

-----------------------------------------------------------------------------
(* ID normalization *)

\* A plausible slip: the ".00" form is tried before the verbatim one.
normalize_permit_id_suffix_first(pid, store) ==
    IF (pid \o Suffix00) \in Keys(store) THEN pid \o Suffix00
    ELSE IF pid \in Keys(store) THEN pid
    ELSE IF EndsWith(pid, Suffix00) /\ DropLast(pid, 3) \in Keys(store)
         THEN DropLast(pid, 3)
    ELSE None

\* A plausible slip: the stem is returned without looking it up.
normalize_permit_id_unchecked_stem(pid, store) ==
    IF pid \in Keys(store) THEN pid
    ELSE IF (pid \o Suffix00) \in Keys(store) THEN pid \o Suffix00
    ELSE IF EndsWith(pid, Suffix00) THEN DropLast(pid, 3)
    ELSE None

\* permit_utils.normalize_permit_id
normalize_permit_id(pid, store) ==
    IF pid \in Keys(store) THEN pid
    ELSE IF (pid \o Suffix00) \in Keys(store) THEN pid \o Suffix00
    ELSE IF EndsWith(pid, Suffix00) /\ DropLast(pid, 3) \in Keys(store)
         THEN DropLast(pid, 3)
    ELSE None

\* analyze_project.normalize_permit_id (a copy of the one in permit_utils)
analyze_normalize_permit_id(pid, store) ==
    IF pid \in Keys(store) THEN pid
    ELSE IF (pid \o Suffix00) \in Keys(store) THEN pid \o Suffix00
    ELSE IF EndsWith(pid, Suffix00) /\ DropLast(pid, 3) \in Keys(store)
         THEN DropLast(pid, 3)
    ELSE None

NormalizeWith(fn, pid, store) ==
    IF fn = "permit_utils" THEN normalize_permit_id(pid, store)
    ELSE analyze_normalize_permit_id(pid, store)

-----------------------------------------------------------------------------
(* Permit records *)

\* A Permit, with the fields the aggregation reads (models.py:126-146).
Permit(pid, parents, children) ==
    [permit_id |-> pid, parent_cases |-> parents, child_cases |-> children]

\* k copies of ".00"
RECURSIVE Repeat00(_)
Repeat00(k) == IF k = 0 THEN <<>> ELSE Suffix00 \o Repeat00(k - 1)

-----------------------------------------------------------------------------
(* Loading the store: load_permits adds one record per line of the file. *)

LoadPermit(p, limit) ==
    /\ ~loaded
    /\ Len(permits) < limit
    /\ permits' = Put(permits, p)
    /\ UNCHANGED loaded

FinishLoad ==
    /\ ~loaded
    /\ loaded' = TRUE
    /\ UNCHANGED permits

InitStore ==
    /\ permits = <<>>
    /\ loaded = FALSE

InitNorm ==
    /\ norm_fn = "permit_utils"
    /\ norm_arg = Unset
    /\ norm_result = Unset
    /\ norm_twice = Unset

\* A dict with no key.
EmptyMap == [k \in {} |-> {}]

InitGraph ==
    /\ graph_fn = "none"
    /\ children_map = EmptyMap
    /\ parents_map = EmptyMap

InitTrav ==
    /\ trav_fn = "none"
    /\ trav_pc = "idle"
    /\ start_ids = <<>>
    /\ visited = {}
    /\ queue = <<>>
    /\ expanded = {}
    /\ reexpanded = FALSE

InitAlb ==
    /\ plans = <<>>
    /\ sel_group = <<>>
    /\ sel_primary = <<>>
    /\ projects = <<>>
    /\ groups = <<>>
    /\ alb_pc = "idle"

InitDev ==
    /\ dev_args = <<>>
    /\ candidates = <<>>
    /\ deduped = <<>>
    /\ developments = <<>>
    /\ dev_pc = "idle"

InitZone ==
    /\ sub_permit = <<>>
    /\ sub_result = <<>>
    /\ zoning_related = <<>>
    /\ zoning_result = <<>>

InitOv ==
    /\ ov_impl = "none"
    /\ ov_projects = <<>>
    /\ ov_overrides = <<>>
    /\ ov_input = ov_projects
    /\ ov_stages = <<>>
    /\ ov_result = <<>>
    /\ ov_pc = "idle"

InitTree ==
    tree = [pc |-> "idle", project |-> None, related |-> {}, roots |-> <<>>,
            stack |-> <<>>, visited |-> {}, nodes |-> <<>>]

InitFetch ==
    fetch = [main |-> "idle", limit |-> 0, sem |-> 0, tasks |-> <<>>,
             completed |-> <<>>, written |-> <<>>]

InitDet ==
    det = [related |-> <<>>, zones |-> <<>>, runs |-> <<>>]

\* The state of the parts a specification does not run.
InitLater == InitTree /\ InitFetch /\ InitDet

-----------------------------------------------------------------------------
(* SpecNormalize: normalize_permit_id over stores of suffixed identifiers *)

\* Identifiers carry up to MaxSuffix copies of ".00"; a store holds up to
\* MaxNormPermits records.
MaxSuffix == 2
MaxNormPermits == 3
NormStems == {<<"7">>, <<"8">>}
NormKeys == {stem \o Repeat00(k) : stem \in NormStems, k \in 0..MaxSuffix}
NormArgs == {stem \o Repeat00(k) : stem \in NormStems, k \in 0..(MaxSuffix + 1)}

NormLoad ==
    /\ ~loaded
    /\ \E pid \in NormKeys : LoadPermit(Permit(pid, <<>>, <<>>), MaxNormPermits)
    /\ UNCHANGED <<treeVars, fetchVars, detVars, zoneVars, ovVars, albVars, devVars, normVars, graphVars, travVars>>

NormFinishLoad ==
    /\ FinishLoad
    /\ UNCHANGED <<treeVars, fetchVars, detVars, zoneVars, ovVars, albVars, devVars, normVars, graphVars, travVars>>

\* norm = normalize_permit_id(pid, permits)
Normalize ==
    /\ loaded
    /\ \E fn \in {"permit_utils", "analyze_project"}, pid \in NormArgs :
        /\ norm_fn' = fn
        /\ norm_arg' = pid
        /\ norm_result' = NormalizeWith(fn, pid, permits)
        /\ norm_twice' = Unset
    /\ UNCHANGED <<treeVars, fetchVars, detVars, zoneVars, ovVars, albVars, devVars, storeVars, graphVars, travVars>>

\* normalize_permit_id(norm, permits), for a norm that was found
Renormalize ==
    /\ loaded
    /\ norm_result # Unset
    /\ norm_result # None
    /\ norm_twice = Unset
    /\ norm_twice' = NormalizeWith(norm_fn, norm_result, permits)
    /\ UNCHANGED <<treeVars, fetchVars, detVars, zoneVars, ovVars, albVars, devVars, storeVars, norm_fn, norm_arg, norm_result, graphVars, travVars>>

InitNormalize == InitLater /\ InitStore /\ InitNorm /\ InitGraph /\ InitTrav /\ InitAlb /\ InitDev /\ InitZone /\ InitOv

NextNormalize == NormLoad \/ NormFinishLoad \/ Normalize \/ Renormalize

SpecNormalize == InitNormalize /\ [][NextNormalize]_vars

\* C7: normalize_permit_id returns pid when pid is a key; otherwise pid + ".00"
\* when that is a key; otherwise pid without its trailing ".00" when pid ends
\* with ".00" and the stem is a key; otherwise None. Every result other than
\* None is a key of the store.
NormalizeAsSpecified ==
    norm_arg # Unset =>
        LET K == Keys(permits)
            verbatim == norm_arg \in K
            suffixed == (norm_arg \o Suffix00) \in K
            stemmed == EndsWith(norm_arg, Suffix00) /\ DropLast(norm_arg, 3) \in K
        IN  /\ verbatim => norm_result = norm_arg
            /\ (~verbatim /\ suffixed) => norm_result = norm_arg \o Suffix00
            /\ (~verbatim /\ ~suffixed /\ stemmed) => norm_result = DropLast(norm_arg, 3)
            /\ (~verbatim /\ ~suffixed /\ ~stemmed) => norm_result = None
            /\ norm_result # None => norm_result \in K

\* C7 witness: the third check decided: the stem of an identifier that ends
\* with ".00" and is not a key was returned, in a store of two or more keys.
NormalizeStemFound ==
    /\ norm_arg # Unset
    /\ EndsWith(norm_arg, Suffix00)
    /\ norm_result = DropLast(norm_arg, 3)
    /\ norm_arg \notin Keys(permits)
    /\ Cardinality(Keys(permits)) >= 2

\* C8: normalizing a found identifier again returns it unchanged.
NormalizeIdempotent ==
    norm_twice # Unset => norm_twice = norm_result

\* C8 witness: an identifier that is not itself a key was normalized to one
\* of several keys that differ only by ".00" suffixes, and normalized again.
NormalizeTwiceDone ==
    /\ norm_twice # Unset
    /\ norm_arg \notin Keys(permits)
    /\ norm_result \in Keys(permits)
    /\ (norm_result \o Suffix00) \in Keys(permits)

-----------------------------------------------------------------------------
(* The relationship graph *)

\* The elements of a list.
Elems(seq) == {seq[i] : i \in DOMAIN seq}

\* All lists over S of length at most n.
SeqsUpTo(S, n) == UNION {[1..k -> S] : k \in 0..n}

\* The declared links of the store as <<declaring permit_id, raw link id>>.
ParentDecls(store) ==
    UNION {{<<store[i].permit_id, l>> : l \in Elems(store[i].parent_cases)} :
            i \in DOMAIN store}
ChildDecls(store) ==
    UNION {{<<store[i].permit_id, l>> : l \in Elems(store[i].child_cases)} :
            i \in DOMAIN store}

\* The defaultdict(set) that results from the statements m[k].add(v), one per
\* pair <<k, v>> of adds, turned into a dict: only keys that were added to exist.
MapOf(adds) ==
    [k \in {a[1] : a \in adds} |-> {a[2] : a \in {b \in adds : b[1] = k}}]

\* m.get(k, set())
MapGet(m, k) == IF k \in DOMAIN m THEN m[k] ELSE {}

\* A plausible slip: the child loop forgets parents_map[norm].add(pid).
build_relationship_graph_one_way(store) ==
    LET parentAdds == {d \in ParentDecls(store) : Truthy(normalize_permit_id(d[2], store))}
        childAdds == {d \in ChildDecls(store) : Truthy(normalize_permit_id(d[2], store))}
    IN  [children_map |->
            MapOf({<<normalize_permit_id(d[2], store), d[1]>> : d \in parentAdds}
                  \cup {<<d[1], normalize_permit_id(d[2], store)>> : d \in childAdds}),
         parents_map |->
            MapOf({<<d[1], normalize_permit_id(d[2], store)>> : d \in parentAdds})]

\* build_site.build_relationship_graph: every link is normalized, and a link
\* that does not normalize adds nothing.
build_relationship_graph(store) ==
    LET parentAdds == {d \in ParentDecls(store) : Truthy(normalize_permit_id(d[2], store))}
        childAdds == {d \in ChildDecls(store) : Truthy(normalize_permit_id(d[2], store))}
    IN  [children_map |->
            MapOf({<<normalize_permit_id(d[2], store), d[1]>> : d \in parentAdds}
                  \cup {<<d[1], normalize_permit_id(d[2], store)>> : d \in childAdds}),
         parents_map |->
            MapOf({<<d[1], normalize_permit_id(d[2], store)>> : d \in parentAdds}
                  \cup {<<normalize_permit_id(d[2], store), d[1]>> : d \in childAdds})]

\* analyze_project.build_relationship_graph: the raw link identifiers are used
\* as they are declared.
analyze_build_relationship_graph(store) ==
    [children_map |->
        MapOf({<<d[2], d[1]>> : d \in ParentDecls(store)}
              \cup {<<d[1], d[2]>> : d \in ChildDecls(store)}),
     parents_map |->
        MapOf({<<d[1], d[2]>> : d \in ParentDecls(store)}
              \cup {<<d[2], d[1]>> : d \in ChildDecls(store)})]

-----------------------------------------------------------------------------
(* The traversal *)

\* for link in links: norm = normalize_permit_id(link.permit_id, permits);
\*                    if norm and norm not in visited: queue.append(norm)
RECURSIVE PushLinks(_, _, _, _)
PushLinks(q, links, vis, store) ==
    IF links = <<>> THEN q
    ELSE LET norm == normalize_permit_id(Head(links), store)
         IN  PushLinks(IF Truthy(norm) /\ norm \notin vis THEN Append(q, norm) ELSE q,
                       Tail(links), vis, store)

\* A plausible slip: visited.add(pid) is forgotten.
related_loop_body_no_mark(vis, q, store) ==
    LET pid == q[Len(q)]
        rest == SubSeq(q, 1, Len(q) - 1)
    IN  IF pid \in vis THEN [visited |-> vis, queue |-> rest, expand |-> None]
        ELSE IF pid \notin Keys(store)
             THEN [visited |-> vis, queue |-> rest, expand |-> pid]
        ELSE [visited |-> vis,
              queue |-> PushLinks(PushLinks(rest, Get(store, pid).parent_cases, vis, store),
                                  Get(store, pid).child_cases, vis, store),
              expand |-> pid]

\* One iteration of `while queue` in permit_utils.find_related_permits, for a
\* non-empty queue. expand is the pid when it passed the visited check.
related_loop_body(vis, q, store) ==
    LET pid == q[Len(q)]
        rest == SubSeq(q, 1, Len(q) - 1)
        vis1 == vis \cup {pid}
    IN  IF pid \in vis THEN [visited |-> vis, queue |-> rest, expand |-> None]
        ELSE IF pid \notin Keys(store)
             THEN [visited |-> vis1, queue |-> rest, expand |-> pid]
        ELSE [visited |-> vis1,
              queue |-> PushLinks(PushLinks(rest, Get(store, pid).parent_cases, vis1, store),
                                  Get(store, pid).child_cases, vis1, store),
              expand |-> pid]

\* for nid in ids: if nid not in visited and nid in permits: queue.append(nid)
RECURSIVE PushIds(_, _, _, _)
PushIds(q, ids, vis, store) ==
    IF ids = <<>> THEN q
    ELSE PushIds(IF Head(ids) \notin vis /\ Head(ids) \in Keys(store)
                 THEN Append(q, Head(ids)) ELSE q,
                 Tail(ids), vis, store)

\* The orders in which a set can be iterated.
Orders(S) == {o \in [1..Cardinality(S) -> S] : Elems(o) = S}

\* One iteration of `while queue` in analyze_project.find_all_related, for a
\* non-empty queue; children and parents are children_map.get(pid, []) and
\* parents_map.get(pid, []) in the order the sets are iterated.
all_related_loop_body(vis, q, store, children, parents) ==
    LET pid == q[Len(q)]
        rest == SubSeq(q, 1, Len(q) - 1)
        vis1 == vis \cup {pid}
    IN  IF pid \in vis THEN [visited |-> vis, queue |-> rest, expand |-> None]
        ELSE [visited |-> vis1,
              queue |-> PushIds(PushIds(rest, children, vis1, store), parents, vis1, store),
              expand |-> pid]

-----------------------------------------------------------------------------
(* SpecGraph: the relationship graph and the traversals over linked stores *)

\* The file lists the records by ascending identifier: neither the graph nor
\* a traversal's result depends on the order of the store. A store holds up to MaxGraphPermits records that declare up to MaxLinks
\* parent/child links in all; a traversal starts from up to MaxSeeds seeds.
MaxGraphPermits == 3
MaxLinks == 2
MaxSeeds == 2
GraphKeys == {<<"1">>, <<"2">>, <<"2">> \o Suffix00}
GraphLinks == {<<"1">>, <<"1">> \o Suffix00, <<"2">>, <<"2">> \o Suffix00}

\* The seeds are listed without repetition, by ascending identifier.
Ascending(seeds) == \A i \in 1..(Len(seeds) - 1) : StrLess(seeds[i], seeds[i + 1])

RECURSIVE TotalLinks(_)
TotalLinks(store) ==
    IF store = <<>> THEN 0
    ELSE Len(Head(store).parent_cases) + Len(Head(store).child_cases)
         + TotalLinks(Tail(store))

GraphLoad ==
    /\ ~loaded
    /\ Len(permits) < MaxGraphPermits
    /\ TotalLinks(permits) <= MaxLinks
    /\ \E pid \in GraphKeys,
          parents \in SeqsUpTo(GraphLinks, MaxLinks - TotalLinks(permits)) :
        /\ permits # <<>> => StrLess(permits[Len(permits)].permit_id, pid)
        /\ \E children \in SeqsUpTo(GraphLinks,
                                     MaxLinks - TotalLinks(permits) - Len(parents)) :
            LoadPermit(Permit(pid, parents, children), MaxGraphPermits)
    /\ UNCHANGED <<treeVars, fetchVars, detVars, zoneVars, ovVars, albVars, devVars, normVars, graphVars, travVars>>

GraphFinishLoad ==
    /\ FinishLoad
    /\ UNCHANGED <<treeVars, fetchVars, detVars, zoneVars, ovVars, albVars, devVars, normVars, graphVars, travVars>>

\* children_map, parents_map = build_relationship_graph(permits)  (build_site)
BuildGraph ==
    /\ loaded
    /\ graph_fn = "none"
    /\ trav_pc = "idle"
    /\ graph_fn' = "build_site"
    /\ children_map' = build_relationship_graph(permits).children_map
    /\ parents_map' = build_relationship_graph(permits).parents_map
    /\ UNCHANGED <<treeVars, fetchVars, detVars, zoneVars, ovVars, albVars, devVars, storeVars, normVars, travVars>>

\* children_map, parents_map = build_relationship_graph(permits)  (analyze_project)
AnalyzeBuildGraph ==
    /\ loaded
    /\ graph_fn = "none"
    /\ trav_pc = "idle"
    /\ graph_fn' = "analyze_project"
    /\ children_map' = analyze_build_relationship_graph(permits).children_map
    /\ parents_map' = analyze_build_relationship_graph(permits).parents_map
    /\ UNCHANGED <<treeVars, fetchVars, detVars, zoneVars, ovVars, albVars, devVars, storeVars, normVars, travVars>>

\* find_related_permits(start_ids, permits) up to `while queue`. The function
\* does not read the graph; it is explored from the store alone.
StartRelated ==
    /\ loaded
    /\ graph_fn = "none"
    /\ trav_pc = "idle"
    /\ \E seeds \in SeqsUpTo(Keys(permits), MaxSeeds) :
        /\ seeds # <<>>
        /\ Ascending(seeds)
        /\ start_ids' = seeds
        /\ queue' = seeds
    /\ trav_fn' = "find_related_permits"
    /\ trav_pc' = "loop"
    /\ visited' = {}
    /\ UNCHANGED <<treeVars, fetchVars, detVars, zoneVars, ovVars, albVars, devVars, storeVars, normVars, graphVars, expanded, reexpanded>>

\* find_all_related(start_ids, permits, children_map, parents_map) up to
\* `while queue`, on the graph analyze_project built; start_ids is a set.
StartAllRelated ==
    /\ loaded
    /\ graph_fn = "analyze_project"
    /\ trav_pc = "idle"
    /\ \E seeds \in SeqsUpTo(Keys(permits), MaxSeeds) :
        /\ seeds # <<>>
        /\ Ascending(seeds)
        /\ start_ids' = seeds
        /\ queue' = seeds
    /\ trav_fn' = "find_all_related"
    /\ trav_pc' = "loop"
    /\ visited' = {}
    /\ UNCHANGED <<treeVars, fetchVars, detVars, zoneVars, ovVars, albVars, devVars, storeVars, normVars, graphVars, expanded, reexpanded>>

\* The history of one loop iteration's outcome.
Record(out) ==
    /\ visited' = out.visited
    /\ queue' = out.queue
    /\ expanded' = IF out.expand = None THEN expanded ELSE expanded \cup {out.expand}
    /\ reexpanded' = (reexpanded \/ out.expand \in expanded)

RelatedStep ==
    /\ trav_fn = "find_related_permits"
    /\ trav_pc = "loop"
    /\ queue # <<>>
    /\ Record(related_loop_body(visited, queue, permits))
    /\ UNCHANGED <<treeVars, fetchVars, detVars, zoneVars, ovVars, albVars, devVars, storeVars, normVars, graphVars, trav_fn, trav_pc, start_ids>>

AllRelatedStep ==
    /\ trav_fn = "find_all_related"
    /\ trav_pc = "loop"
    /\ queue # <<>>
    /\ \E children \in Orders(MapGet(children_map, queue[Len(queue)])),
          parents \in Orders(MapGet(parents_map, queue[Len(queue)])) :
        Record(all_related_loop_body(visited, queue, permits, children, parents))
    /\ UNCHANGED <<treeVars, fetchVars, detVars, zoneVars, ovVars, albVars, devVars, storeVars, normVars, graphVars, trav_fn, trav_pc, start_ids>>

\* `while queue` ends; return visited
TraversalReturn ==
    /\ trav_pc = "loop"
    /\ queue = <<>>
    /\ trav_pc' = "done"
    /\ UNCHANGED <<treeVars, fetchVars, detVars, zoneVars, ovVars, albVars, devVars, storeVars, normVars, graphVars, trav_fn, start_ids, visited, queue,
                   expanded, reexpanded>>

InitGraphSpec == InitLater /\ InitStore /\ InitNorm /\ InitGraph /\ InitTrav /\ InitAlb /\ InitDev /\ InitZone /\ InitOv

NextGraph ==
    \/ GraphLoad
    \/ GraphFinishLoad
    \/ BuildGraph
    \/ AnalyzeBuildGraph
    \/ StartRelated
    \/ StartAllRelated
    \/ RelatedStep
    \/ AllRelatedStep
    \/ TraversalReturn

SpecGraph == InitGraphSpec /\ [][NextGraph]_vars

\* A loop iteration is taken whenever the queue is not empty, and the function
\* returns when it is: the interpreter runs the loop it is in.
FairSpecGraph ==
    /\ SpecGraph
    /\ WF_vars(RelatedStep)
    /\ WF_vars(AllRelatedStep)
    /\ WF_vars(TraversalReturn)

-----------------------------------------------------------------------------
(* Claims about the relationship graph and the traversals *)

AllDecls(store) == ParentDecls(store) \cup ChildDecls(store)

\* x and y are adjacent when either record declares the other as a parent or
\* a child, after normalization.
Adjacent(x, y, store) ==
    \E d \in AllDecls(store) :
        \/ d[1] = x /\ normalize_permit_id(d[2], store) = y
        \/ d[1] = y /\ normalize_permit_id(d[2], store) = x

\* The keys of the store reachable from S in the undirected relationship graph.
RECURSIVE Component(_, _)
Component(S, store) ==
    LET step == S \cup {y \in Keys(store) : \E x \in S : Adjacent(x, y, store)}
    IN  IF step = S THEN S ELSE Component(step, store)

\* C3 (as claimed): the traversal returns exactly the store identifiers
\* reachable from the seeds in the undirected relationship graph, also when a
\* link is declared on one endpoint only.
TraversalReturnsComponent ==
    trav_pc = "done" => visited = Component(Elems(start_ids), permits)

\* C4: no identifier passes the visited check twice, and a traversal that has
\* entered its loop returns.
TraversalTerminates ==
    /\ [](~reexpanded)
    /\ (trav_pc = "loop") ~> (trav_pc = "done")

\* C4 witness: find_related_permits returned on a store in which two records
\* name each other as parent (a circular chain), having visited both.
TraversalOfCycleDone ==
    /\ trav_pc = "done"
    /\ trav_fn = "find_related_permits"
    /\ \E d1, d2 \in ParentDecls(permits) :
        /\ d1[1] # d2[1]
        /\ normalize_permit_id(d1[2], permits) = d2[1]
        /\ normalize_permit_id(d2[2], permits) = d1[1]
        /\ {d1[1], d2[1]} \subseteq visited

\* The identifier a declared link stands for in the graph that was built.
GraphTarget(raw) ==
    IF graph_fn = "build_site" THEN normalize_permit_id(raw, permits) ELSE raw

\* Every identifier that occurs in the graph.
GraphIds ==
    DOMAIN children_map \cup DOMAIN parents_map
    \cup UNION {children_map[k] : k \in DOMAIN children_map}
    \cup UNION {parents_map[k] : k \in DOMAIN parents_map}

\* C5: b is in children_of[a] exactly when a is in parents_of[b], and every
\* declared link that the builder keeps, whichever endpoint declares it,
\* yields both entries.
GraphSymmetric ==
    graph_fn # "none" =>
        /\ \A a \in GraphIds, b \in GraphIds :
            (b \in MapGet(children_map, a)) <=> (a \in MapGet(parents_map, b))
        /\ \A d \in ChildDecls(permits) :
            Truthy(GraphTarget(d[2])) =>
                /\ GraphTarget(d[2]) \in MapGet(children_map, d[1])
                /\ d[1] \in MapGet(parents_map, GraphTarget(d[2]))
        /\ \A d \in ParentDecls(permits) :
            Truthy(GraphTarget(d[2])) =>
                /\ d[1] \in MapGet(children_map, GraphTarget(d[2]))
                /\ GraphTarget(d[2]) \in MapGet(parents_map, d[1])

\* C5 witness: build_site built the graph of a store in which a record lists
\* a child, under another form of its identifier, that lists no parent.
OneSidedLinkInGraph ==
    /\ graph_fn = "build_site"
    /\ \E d \in ChildDecls(permits) :
        /\ d[2] \notin Keys(permits)
        /\ normalize_permit_id(d[2], permits) \in Keys(permits) \ {d[1]}
        /\ Get(permits, normalize_permit_id(d[2], permits)).parent_cases = <<>>
        /\ d[1] \in MapGet(parents_map, normalize_permit_id(d[2], permits))

\* C6 (as claimed): every identifier in the graph is a key of the store.
GraphIdsAreStoreKeys ==
    graph_fn # "none" => GraphIds \subseteq Keys(permits)

-----------------------------------------------------------------------------
(* Albemarle plans (albemarle/models.py, albemarle/build_projects.py).

   An AlbemarlePlan is a record of the fields the grouping reads.  Fields
   that are only compared for equality or looked up in a table are TLA+
   strings, "" being the empty default; address_concatenated, which is
   stripped, is a sequence of characters.  A date is the integer yyyymmdd,
   ordered like datetime.date, and NoDate stands for None. *)

NoDate == 0

\* date.max, the stand-in of a missing application_date in sort_key.
DateMax == 99991231

AlbemarlePlan(id, num, type, wc, status, app, project, parcel, addr, desc) ==
    [plan_id |-> id, plan_number |-> num, plan_type |-> type,
     plan_work_class |-> wc, plan_status |-> status, application_date |-> app,
     project_number |-> project, main_parcel_number |-> parcel,
     address_concatenated |-> addr, description |-> desc]

PlanIds(store) == {store[i].plan_id : i \in 1..Len(store)}

\* plans[plan.plan_id] = plan
PutPlan(store, plan) ==
    IF plan.plan_id \in PlanIds(store)
    THEN [i \in 1..Len(store) |->
            IF store[i].plan_id = plan.plan_id THEN plan ELSE store[i]]
    ELSE Append(store, plan)

CORE_PLAN_TYPES ==
    {"Site Development Plan", "Subdivision", "Zoning Map Amendment",
     "Special Use", "Special Exceptions"}

\* STATUS_PRIORITY.get(status, 0)
STATUS_PRIORITY(status) ==
    CASE status = "Approved" -> 100
      [] status = "In Review" -> 80
      [] status = "Submitted" -> 75
      [] status = "Submitted - Online" -> 75
      [] status = "Complete" -> 70
      [] status = "Fees Paid" -> 65
      [] status = "Fees Due" -> 60
      [] status = "On Hold" -> 40
      [] status = "Deferred Definite" -> 30
      [] status = "Deferred Indefinite" -> 30
      [] status = "Review Expired" -> 20
      [] status = "Denied" -> 15
      [] status = "Void" -> 10
      [] status = "Withdrawn" -> 10
      [] OTHER -> 0

\* type_order with the types it does not list ahead of the listed ones.
type_order_unlisted_first(plan_type) ==
    CASE plan_type = "Site Development Plan" -> 0
      [] plan_type = "Zoning Map Amendment" -> 1
      [] plan_type = "Special Use" -> 2
      [] plan_type = "Special Exceptions" -> 3
      [] plan_type = "Subdivision" -> 4
      [] OTHER -> -1

\* type_order.get(plan_type, 99)
type_order(plan_type) ==
    CASE plan_type = "Site Development Plan" -> 0
      [] plan_type = "Zoning Map Amendment" -> 1
      [] plan_type = "Special Use" -> 2
      [] plan_type = "Special Exceptions" -> 3
      [] plan_type = "Subdivision" -> 4
      [] OTHER -> 99

\* work_class_order.get(plan_work_class, 99)
work_class_order(work_class) ==
    CASE work_class = "Initial" -> 0
      [] work_class = "Final" -> 1
      [] work_class = "Amendment" -> 2
      [] OTHER -> 99

(* Python compares key tuples lexicographically, and sorted() and list.sort()
   are stable.  A key is a tuple of integers; a str component of a key is
   spliced in as its code points, which keeps the order when it is the last
   component. *)
RECURSIVE TupleLess(_, _)
TupleLess(a, b) ==
    IF b = <<>> THEN FALSE
    ELSE IF a = <<>> THEN TRUE
    ELSE IF Head(a) # Head(b) THEN Head(a) < Head(b)
    ELSE TupleLess(Tail(a), Tail(b))

\* Insert item after every element of the sorted list whose key is not greater.
RECURSIVE InsertByKey(_, _)
InsertByKey(item, sorted) ==
    IF sorted = <<>> THEN <<item>>
    ELSE IF TupleLess(item.key, Head(sorted).key) THEN <<item>> \o sorted
    ELSE <<Head(sorted)>> \o InsertByKey(item, Tail(sorted))

RECURSIVE SortKeyed(_, _)
SortKeyed(items, sorted) ==
    IF items = <<>> THEN sorted
    ELSE SortKeyed(Tail(items), InsertByKey(Head(items), sorted))

\* sorted(items, key=...), keys[i] being the key of items[i]
Sorted(items, keys) ==
    LET keyed == [i \in 1..Len(items) |-> [key |-> keys[i], val |-> items[i]]]
        out == SortKeyed(keyed, <<>>)
    IN  [i \in 1..Len(out) |-> out[i].val]

\* The key with the status priority not negated.
sort_key_status_ascending(p) ==
    <<type_order(p.plan_type),
      work_class_order(p.plan_work_class),
      STATUS_PRIORITY(p.plan_status),
      IF p.application_date # NoDate THEN p.application_date ELSE DateMax>>

\* sort_key of _select_primary
sort_key(p) ==
    <<type_order(p.plan_type),
      work_class_order(p.plan_work_class),
      -STATUS_PRIORITY(p.plan_status),
      IF p.application_date # NoDate THEN p.application_date ELSE DateMax>>

\* _select_primary(plans), for a non-empty list
_select_primary(group) ==
    Sorted(group, [i \in 1..Len(group) |-> sort_key(group[i])])[1]

_is_core_type(plan) == plan.plan_type \in CORE_PLAN_TYPES


-----------------------------------------------------------------------------
(* SpecPrimary: load_plans fills the store, then _select_primary is called
   on its plans as one group. *)

MaxPrimaryPlans == 3

\* The i-th plan of a file: plan_id and plan_number are unique per plan.
PlanIdAt(i) == CASE i = 1 -> "P1" [] i = 2 -> "P2" [] i = 3 -> "P3" [] OTHER -> "P4"
PlanNumberAt(i) == CASE i = 1 -> "N1" [] i = 2 -> "N2" [] i = 3 -> "N3" [] OTHER -> "N4"

PrimaryTypes == {"Site Development Plan", "Zoning Map Amendment", "Boundary Line Adjustment"}
PrimaryWorkClasses == {"Initial", "Final"}
PrimaryStatuses == {"Approved", "In Review"}
PrimaryDates == {NoDate, 20240105, 20240220}

\* load_plans, one line of the file
LoadPlan(plan, limit) ==
    /\ alb_pc = "idle"
    /\ Len(plans) < limit
    /\ plans' = PutPlan(plans, plan)
    /\ UNCHANGED <<sel_group, sel_primary, projects, groups, alb_pc>>

PrimaryLoad ==
    /\ alb_pc = "idle"
    /\ Len(plans) < MaxPrimaryPlans
    /\ \E type \in PrimaryTypes, wc \in PrimaryWorkClasses,
          status \in PrimaryStatuses, app \in PrimaryDates :
          LoadPlan(AlbemarlePlan(PlanIdAt(Len(plans) + 1), PlanNumberAt(Len(plans) + 1),
                                 type, wc, status, app, "", "", <<>>, ""),
                   MaxPrimaryPlans)
    /\ UNCHANGED <<treeVars, fetchVars, detVars, zoneVars, ovVars, storeVars, normVars, graphVars, travVars, devVars>>

SelectPrimary ==
    /\ alb_pc = "idle"
    /\ plans # <<>>
    /\ sel_group' = plans
    /\ sel_primary' = <<_select_primary(plans)>>
    /\ alb_pc' = "done"
    /\ UNCHANGED <<plans, projects, groups>>
    /\ UNCHANGED <<treeVars, fetchVars, detVars, zoneVars, ovVars, storeVars, normVars, graphVars, travVars, devVars>>

InitPrimary == InitLater /\ InitStore /\ InitNorm /\ InitGraph /\ InitTrav /\ InitAlb /\ InitDev /\ InitZone /\ InitOv

NextPrimary == PrimaryLoad \/ SelectPrimary

SpecPrimary == InitPrimary /\ [][NextPrimary]_vars

\* The order of the claim, component by component: a sorts strictly before b.
MissingLast(a, b) ==
    \/ a.application_date # NoDate /\ b.application_date = NoDate
    \/ /\ a.application_date # NoDate /\ b.application_date # NoDate
       /\ a.application_date < b.application_date

SortsBefore(a, b) ==
    LET ta == type_order(a.plan_type)          tb == type_order(b.plan_type)
        wa == work_class_order(a.plan_work_class)
        wb == work_class_order(b.plan_work_class)
        sa == STATUS_PRIORITY(a.plan_status)   sb == STATUS_PRIORITY(b.plan_status)
    IN  \/ ta < tb
        \/ ta = tb /\ wa < wb
        \/ ta = tb /\ wa = wb /\ sa > sb
        \/ ta = tb /\ wa = wb /\ sa = sb /\ MissingLast(a, b)

-----------------------------------------------------------------------------
(* _build_project and find_projects (albemarle/build_projects.py).

   A project keeps the entries of the dict that come from the grouping:
   project_name, zone, district, complete_date, valuation and square_footage
   are copied or summed from the plans and read by no other step. *)

\* None for an optional count; a count that is present is at least 2.
NoCount == -1

\* extract_units(description)[0] on the descriptions of the model.
extract_units(description) ==
    CASE description = "5 units" -> 5
      [] description = "100 dwelling units" -> 100
      [] description = "5 units on 12 lots" -> 5
      [] description = "3000 units" -> NoCount
      [] description = "1500 sq ft units" -> NoCount
      [] description = "12 lots" -> NoCount
      [] OTHER -> NoCount

\* extract_lots(description) on the descriptions of the model.
extract_lots(description) ==
    CASE description = "12 lots" -> 12
      [] description = "5 units on 12 lots" -> 12
      [] OTHER -> NoCount

\* s.strip(), the blank being the only whitespace of the model's strings
RECURSIVE Strip(_)
Strip(s) ==
    IF s = <<>> THEN s
    ELSE IF Head(s) = " " THEN Strip(Tail(s))
    ELSE IF s[Len(s)] = " " THEN Strip(SubSeq(s, 1, Len(s) - 1))
    ELSE s

\* The list without its falsy elements and without repeats, first occurrences
\* in order: the `if x and x not in seen` loops.
RECURSIVE UniqueInOrder(_, _)
UniqueInOrder(items, empty) ==
    IF items = <<>> THEN <<>>
    ELSE LET rest == UniqueInOrder(SubSeq(items, 1, Len(items) - 1), empty)
             x == items[Len(items)]
         IN  IF x # empty /\ x \notin Elems(rest) THEN Append(rest, x) ELSE rest

\* The `best` loops: the highest count present, None when none is.
RECURSIVE BestCount(_, _)
BestCount(counts, best) ==
    IF counts = <<>> THEN best
    ELSE BestCount(Tail(counts),
                   IF Head(counts) # NoCount /\ (best = NoCount \/ Head(counts) > best)
                   THEN Head(counts) ELSE best)

Digit(n) ==
    CASE n = 0 -> "0" [] n = 1 -> "1" [] n = 2 -> "2" [] n = 3 -> "3" [] n = 4 -> "4"
      [] n = 5 -> "5" [] n = 6 -> "6" [] n = 7 -> "7" [] n = 8 -> "8" [] n = 9 -> "9"

\* d.isoformat() if d else None: "yyyy-mm-dd"
isoformat(d) ==
    IF d = NoDate THEN None
    ELSE LET y == d \div 10000  m == (d \div 100) % 100  dd == d % 100
         IN  <<Digit(y \div 1000), Digit((y \div 100) % 10), Digit((y \div 10) % 10),
               Digit(y % 10), "-", Digit(m \div 10), Digit(m % 10), "-",
               Digit(dd \div 10), Digit(dd % 10)>>

related_plan(p) ==
    [plan_number |-> p.plan_number, plan_type |-> p.plan_type,
     work_class |-> p.plan_work_class, status |-> p.plan_status,
     application_date |-> isoformat(p.application_date),
     description |-> p.description]

_build_project(primary, group) ==
    LET others == SelectSeq(group, LAMBDA p : p.plan_id # primary.plan_id)
    IN  [plan_id |-> primary.plan_id,
         plan_number |-> primary.plan_number,
         project_number |-> primary.project_number,
         plan_type |-> primary.plan_type,
         work_class |-> primary.plan_work_class,
         status |-> primary.plan_status,
         units |-> BestCount([i \in 1..Len(group) |-> extract_units(group[i].description)],
                             NoCount),
         lots |-> BestCount([i \in 1..Len(group) |-> extract_lots(group[i].description)],
                            NoCount),
         addresses |-> UniqueInOrder([i \in 1..Len(group) |->
                                        Strip(group[i].address_concatenated)], <<>>),
         parcels |-> UniqueInOrder([i \in 1..Len(group) |->
                                      group[i].main_parcel_number], ""),
         application_date |-> isoformat(primary.application_date),
         description |-> primary.description,
         plan_count |-> Len(group),
         related_plans |-> [i \in 1..Len(others) |-> related_plan(others[i])]]

\* A defaultdict(list) filled in store order: one group per key, the keys in
\* the order of their first plan; fields[i] is the key of members[i].
GroupsBy(members, fields) ==
    LET keys == UniqueInOrder(fields, "")
    IN  [k \in 1..Len(keys) |->
            LET at == SelectSeq([i \in 1..Len(members) |-> i],
                                LAMBDA i : fields[i] = keys[k])
            IN  [n \in 1..Len(at) |-> members[at[n]]]]

\* The plan_ids of the members of a list of groups.
GroupedIds(gs) == UNION {PlanIds(gs[i]) : i \in 1..Len(gs)}

\* Pass 1: the project-number groups that hold a core-type plan.
by_project_number(store) ==
    LET numbered == SelectSeq(store, LAMBDA p : p.project_number # "")
    IN  SelectSeq(GroupsBy(numbered,
                           [i \in 1..Len(numbered) |-> numbered[i].project_number]),
                  LAMBDA g : \E i \in 1..Len(g) : _is_core_type(g[i]))

\* Pass 2 without the skip of the plans that pass 1 grouped.
by_parcel_ignoring_grouped(store, grouped_ids) ==
    LET rest == SelectSeq(store, LAMBDA p : /\ _is_core_type(p)
                                            /\ p.main_parcel_number # "")
    IN  GroupsBy(rest, [i \in 1..Len(rest) |-> rest[i].main_parcel_number])

\* Pass 2: the parcel groups of the ungrouped core-type plans.
by_parcel(store, grouped_ids) ==
    LET rest == SelectSeq(store, LAMBDA p : /\ p.plan_id \notin grouped_ids
                                            /\ _is_core_type(p)
                                            /\ p.main_parcel_number # "")
    IN  GroupsBy(rest, [i \in 1..Len(rest) |-> rest[i].main_parcel_number])

\* Pass 3 without the skip of the plans that are grouped already.
standalone_plans_ignoring_grouped(store, grouped_ids) ==
    LET rest == SelectSeq(store, LAMBDA p : _is_core_type(p))
    IN  [i \in 1..Len(rest) |-> <<rest[i]>>]

\* Pass 3: each core-type plan still ungrouped, alone.
standalone_plans(store, grouped_ids) ==
    LET rest == SelectSeq(store, LAMBDA p : /\ p.plan_id \notin grouped_ids
                                            /\ _is_core_type(p))
    IN  [i \in 1..Len(rest) |-> <<rest[i]>>]

\* The groups of the three passes, in the order their projects are appended.
find_projects_groups(store) ==
    LET g1 == by_project_number(store)
        g2 == by_parcel(store, GroupedIds(g1))
        g3 == standalone_plans(store, GroupedIds(g1) \cup GroupedIds(g2))
    IN  [pass1 |-> g1, pass2 |-> g2, pass3 |-> g3]

\* x or 0
OrZero(x) == IF x = NoCount THEN 0 ELSE x

\* [ord(c) for c in s]
Codes(s) == [i \in 1..Len(s) |-> Ord(s[i])]

\* key of projects.sort: (-(units or 0), application_date or "9999")
projects_sort_key(p) ==
    <<-OrZero(p.units)>>
    \o Codes(IF Truthy(p.application_date) THEN p.application_date
             ELSE <<"9", "9", "9", "9">>)

find_projects(store) ==
    LET gs == find_projects_groups(store)
        selected == gs.pass1 \o gs.pass2
        unsorted == [i \in 1..Len(selected) |->
                        _build_project(_select_primary(selected[i]), selected[i])]
                    \o [i \in 1..Len(gs.pass3) |->
                        _build_project(gs.pass3[i][1], gs.pass3[i])]
    IN  Sorted(unsorted, [i \in 1..Len(unsorted) |-> projects_sort_key(unsorted[i])])


-----------------------------------------------------------------------------
(* SpecProjects: load_plans fills the store, then find_projects runs on it. *)

MaxPlans == 3

ProjectTypes == {"Site Development Plan", "Subdivision", "Boundary Line Adjustment"}
ProjectNumbers == {"", "PR-1"}
ParcelNumbers == {"", "07600", "07700"}

ProjectsLoad ==
    /\ alb_pc = "idle"
    /\ Len(plans) < MaxPlans
    /\ \E type \in ProjectTypes, project \in ProjectNumbers, parcel \in ParcelNumbers :
          LoadPlan(AlbemarlePlan(PlanIdAt(Len(plans) + 1), PlanNumberAt(Len(plans) + 1),
                                 type, "Initial", "Approved", NoDate,
                                 project, parcel, <<>>, ""),
                   MaxPlans)
    /\ UNCHANGED <<treeVars, fetchVars, detVars, zoneVars, ovVars, storeVars, normVars, graphVars, travVars, devVars>>

FindProjects ==
    /\ alb_pc = "idle"
    /\ LET gs == find_projects_groups(plans)
       IN  groups' = gs.pass1 \o gs.pass2 \o gs.pass3
    /\ projects' = find_projects(plans)
    /\ alb_pc' = "done"
    /\ UNCHANGED <<plans, sel_group, sel_primary>>
    /\ UNCHANGED <<treeVars, fetchVars, detVars, zoneVars, ovVars, storeVars, normVars, graphVars, travVars, devVars>>

InitProjects == InitLater /\ InitStore /\ InitNorm /\ InitGraph /\ InitTrav /\ InitAlb /\ InitDev /\ InitZone /\ InitOv

NextProjects == ProjectsLoad \/ FindProjects

SpecProjects == InitProjects /\ [][NextProjects]_vars

\* The plans of the store that are core types.
CorePlans == {i \in 1..Len(plans) : _is_core_type(plans[i])}

\* How many times a plan is a member of the groups.
GroupSlots == {<<g, i>> \in (1..Len(groups)) \X (1..MaxPlans + 1) : i <= Len(groups[g])}
TimesGrouped(plan) ==
    Cardinality({s \in GroupSlots : groups[s[1]][s[2]].plan_id = plan.plan_id})

\* C1 (as claimed): the members of the groups are exactly the core-type
\* plans, and no plan is a member of two groups.
GroupsAreExactlyCorePlans ==
    alb_pc = "done" =>
        /\ GroupedIds(groups) = {plans[i].plan_id : i \in CorePlans}
        /\ \A i \in 1..Len(plans) : TimesGrouped(plans[i]) <= 1

\* C1 (amended): no plan is a member of two groups, every core-type plan is a
\* member of a group, and a plan that is not a core type is a member only of
\* a group that shares its non-empty project number with a core-type plan.
GroupsPartitionCorePlans ==
    alb_pc = "done" =>
        /\ \A i \in 1..Len(plans) : TimesGrouped(plans[i]) <= 1
        /\ \A i \in CorePlans : TimesGrouped(plans[i]) = 1
        /\ \A s \in GroupSlots :
              LET g == groups[s[1]]
                  p == g[s[2]]
              IN  ~_is_core_type(p) =>
                    /\ p.project_number # ""
                    /\ \E j \in 1..Len(g) : /\ _is_core_type(g[j])
                                            /\ g[j].project_number = p.project_number

\* A project-number group with a member that is not a core type, whose
\* core-type member shares its parcel with the plan of a second group.
NonCoreMemberGrouped ==
    /\ alb_pc = "done"
    /\ Len(groups) = 2
    /\ \E i, j \in 1..Len(groups[1]) :
          /\ ~_is_core_type(groups[1][i])
          /\ _is_core_type(groups[1][j])
          /\ groups[1][j].main_parcel_number # ""
          /\ groups[1][j].main_parcel_number = groups[2][1].main_parcel_number

\* How many times a plan is a member of the returned projects: as the
\* primary, by plan_id, or as a related plan, by the plan_number of the entry.
TimesInProjects(plan) ==
    Cardinality({k \in 1..Len(projects) : projects[k].plan_id = plan.plan_id})
    + Cardinality({s \in (1..Len(projects)) \X (1..MaxPlans + 1) :
                     /\ s[2] <= Len(projects[s[1]].related_plans)
                     /\ projects[s[1]].related_plans[s[2]].plan_number = plan.plan_number})

\* C2: every core-type plan of the store is a member, primary or related, of
\* exactly one returned project.
CorePlanInExactlyOneProject ==
    alb_pc = "done" => \A i \in CorePlans : TimesInProjects(plans[i]) = 1

\* A parcel group of two core-type plans next to a standalone core-type plan.
ParcelGroupAndStandalone ==
    /\ alb_pc = "done"
    /\ Len(projects) = 2
    /\ \E a, b \in 1..2 :
          /\ projects[a].plan_count = 2
          /\ projects[a].project_number = ""
          /\ Len(projects[a].related_plans) = 1
          /\ projects[b].plan_count = 1
          /\ projects[b].parcels = <<>>


-----------------------------------------------------------------------------
(* find_developments (top_developments.py).

   A permit of this part has, next to its links, the fields the assembly
   reads: site_addresses is the list of the address strings, parcel_number
   and status come from search_result, and unit_count and use_type stand for
   the detail lines by what get_unit_count and get_project_type read from
   them.  A project keeps the entries that the deduplication, the sort and
   the filter read; zone, zoning_code, code_reason, qualifying_date,
   initial_submit, last_updated and project_number are computed per
   candidate and read by none of them. *)

DevPermit(pid, parents, children, addresses, parcel, status, units, ptype, subtype, use) ==
    [permit_id |-> pid, parent_cases |-> parents, child_cases |-> children,
     site_addresses |-> addresses, parcel_number |-> parcel, status |-> status,
     unit_count |-> units, permit_type |-> ptype, sub_type |-> subtype,
     use_type |-> use]

INCLUDE_WITHOUT_UNITS_TYPES == {"Site Plan"}
INCLUDE_WITHOUT_UNITS_SUBTYPES ==
    {"Development Plan Review - Major", "Development Plan Review - Minor"}

should_include_without_units(permit) ==
    \/ permit.permit_type \in INCLUDE_WITHOUT_UNITS_TYPES
    \/ permit.sub_type \in INCLUDE_WITHOUT_UNITS_SUBTYPES

get_unit_count(permit) == permit.unit_count

get_project_type(permit) == permit.use_type

\* permit_utils.find_related_permits(start_ids, permits), run to its return.
RECURSIVE RelatedLoop(_, _, _)
RelatedLoop(vis, q, store) ==
    IF q = <<>> THEN vis
    ELSE LET out == related_loop_body(vis, q, store)
         IN  RelatedLoop(out.visited, out.queue, store)

find_related_permits(ids, store) == RelatedLoop({}, ids, store)

\* sorted(S) for a set of str
SortedStrs(S) ==
    CHOOSE o \in Orders(S) : \A i, j \in 1..Len(o) : i < j => StrLess(o[i], o[j])

\* The `continue`s at the head of the loop over permits.values().
Included(p, min_units, include_without_units) ==
    LET units == get_unit_count(p)
    IN  IF units # NoCount /\ units # 0
        THEN ~(min_units # NoCount /\ units < min_units)
        ELSE IF include_without_units /\ should_include_without_units(p)
             THEN get_project_type(p) # "?"
             ELSE FALSE

\* The dict appended to projects for an included permit p.
Candidate(p, store) ==
    LET related_ids == find_related_permits(<<p.permit_id>>, store)
        related == {Get(store, pid) : pid \in related_ids \cap Keys(store)}
        addrs == UNION {Elems(rp.site_addresses) : rp \in related}
        parcels == {rp.parcel_number : rp \in {r \in related : r.parcel_number # <<>>}}
        primary_addr == IF p.site_addresses # <<>> THEN p.site_addresses[1] ELSE None
        other_addrs == SortedStrs({a \in addrs : a # primary_addr})
    IN  [units |-> get_unit_count(p),
         permit_id |-> p.permit_id,
         use_type |-> get_project_type(p),
         status |-> p.status,
         addresses |-> (IF Truthy(primary_addr) THEN <<primary_addr>> ELSE <<>>)
                       \o other_addrs,
         parcels |-> SortedStrs(parcels),
         permit_count |-> Cardinality(related)]

\* The key under which the deduplication files a project.
dedup_key(proj) ==
    IF proj.parcels # <<>> THEN proj.parcels[1]
    ELSE IF proj.addresses # <<>> THEN proj.addresses[1]
    ELSE proj.permit_id

\* status_priority.get(status, 25)
status_priority(status) ==
    CASE status = "APPROVED" -> 100
      [] status = "APPROVEDCL" -> 100
      [] status = "UNDERCONST" -> 90
      [] status = "PLANCOMM" -> 80
      [] status = "REVIEW" -> 70
      [] status = "RESUBMIT" -> 60
      [] status = "COMMENTS" -> 50
      [] status = "APPLIED" -> 40
      [] status = "DEFERRED" -> 30
      [] status = "EXPIRED" -> 20
      [] status = "REJECTED" -> 10
      [] status = "WITHDRAWN" -> 10
      [] status = "DENIED" -> 10
      [] status = "CLOSED" -> 10
      [] status = "VOID" -> 0
      [] OTHER -> 25

\* max(items, key=...): the first of the items whose key is greatest, keys[i]
\* being the key of items[i].
MaxByKey(items, keys) ==
    LET i == CHOOSE i \in 1..Len(items) :
                /\ \A j \in 1..Len(items) : ~TupleLess(keys[i], keys[j])
                /\ \A j \in 1..(i - 1) : TupleLess(keys[j], keys[i])
    IN  items[i]

\* The survivor chosen by (unit count, status priority): the key swapped.
best_of_units_first(projs) ==
    LET active == SelectSeq(projs, LAMBDA x : x.status # "VOID")
        among == IF active # <<>> THEN active ELSE projs
    IN  MaxByKey(among, [i \in 1..Len(among) |->
                            <<OrZero(among[i].units), status_priority(among[i].status)>>])

\* The survivor of the projects filed under one key.
best_of(projs) ==
    LET active == SelectSeq(projs, LAMBDA x : x.status # "VOID")
        among == IF active # <<>> THEN active ELSE projs
    IN  MaxByKey(among, [i \in 1..Len(among) |->
                            <<status_priority(among[i].status), OrZero(among[i].units)>>])

\* An address counts as complete when it is not empty.
has_any_address(addr) == addr # <<>>

\* bool(addr and addr[0].isdigit())
has_complete_address(addr) ==
    /\ addr # <<>>
    /\ addr[1] \in {"0", "1", "2", "3", "4", "5", "6", "7", "8", "9"}

\* Every project filed alone: nothing is deduplicated.
dedup_groups_each_alone(found) == [i \in 1..Len(found) |-> <<found[i]>>]

\* by_key.values(): the projects filed under each key, the keys in the order
\* of their first project.
dedup_groups(found) ==
    LET keys == UniqueInOrder([i \in 1..Len(found) |-> dedup_key(found[i])], None)
    IN  [k \in 1..Len(keys) |-> SelectSeq(found, LAMBDA x : dedup_key(x) = keys[k])]

\* The projects assembled by the loop over permits.values().
assemble(store, min_units, include_without_units) ==
    LET included == SelectSeq(store, LAMBDA p : Included(p, min_units, include_without_units))
    IN  [i \in 1..Len(included) |-> Candidate(included[i], store)]

\* deduped: the survivor of every key, the keys in the order of by_key.
deduplicate(found) ==
    LET by_key == dedup_groups(found)
    IN  [k \in 1..Len(by_key) |-> best_of(by_key[k])]

find_developments(store, min_units, include_without_units) ==
    LET survivors == deduplicate(assemble(store, min_units, include_without_units))
        ordered == Sorted(survivors,
                          [k \in 1..Len(survivors) |-> <<-OrZero(survivors[k].units)>>])
    IN  SelectSeq(ordered,
                  LAMBDA proj : \/ proj.parcels # <<>>
                                \/ \E i \in 1..Len(proj.addresses) :
                                      has_complete_address(proj.addresses[i]))


-----------------------------------------------------------------------------
(* SpecDevelopments: load_permits fills the store, then find_developments
   runs on it. *)

MaxDevPermits == 2

DevIdAt(i) ==
    CASE i = 1 -> <<"1">> [] i = 2 -> <<"2">> [] i = 3 -> <<"3">> [] OTHER -> <<"4">>
DevAddresses == {<<>>, << <<"M">> >>, << <<"1", "M">> >>}
DevParcels == {<<>>, <<"7">>}
DevStatuses == {"APPROVED", "VOID"}
DevUnits == {NoCount, 5}
DevMinUnits == {NoCount, 6}

DevLoad ==
    /\ ~loaded
    /\ dev_pc = "idle"
    /\ Len(permits) < MaxDevPermits
    /\ LET pid == DevIdAt(Len(permits) + 1)
       IN  \E parents \in {<<>>, <<DevIdAt(((Len(permits) + 1) % MaxDevPermits) + 1)>>},
              addresses \in DevAddresses, parcel \in DevParcels,
              status \in DevStatuses, units \in DevUnits :
              LoadPermit(DevPermit(pid, parents, <<>>, addresses, parcel, status, units,
                                   "Site Plan", "", "Multi-Family"),
                         MaxDevPermits)
    /\ UNCHANGED <<treeVars, fetchVars, detVars, zoneVars, ovVars, normVars, graphVars, travVars, albVars, devVars>>

DevFinishLoad ==
    /\ dev_pc = "idle"
    /\ FinishLoad
    /\ UNCHANGED <<treeVars, fetchVars, detVars, zoneVars, ovVars, normVars, graphVars, travVars, albVars, devVars>>

FindDevelopments ==
    /\ loaded
    /\ dev_pc = "idle"
    /\ \E min_units \in DevMinUnits, include_without_units \in BOOLEAN :
          /\ dev_args' = <<min_units, include_without_units>>
          /\ candidates' = assemble(permits, min_units, include_without_units)
          /\ deduped' = deduplicate(assemble(permits, min_units, include_without_units))
          /\ developments' = find_developments(permits, min_units, include_without_units)
    /\ dev_pc' = "done"
    /\ UNCHANGED <<treeVars, fetchVars, detVars, zoneVars, ovVars, storeVars, normVars, graphVars, travVars, albVars>>

InitDevelopments == InitLater /\ InitStore /\ InitNorm /\ InitGraph /\ InitTrav /\ InitAlb /\ InitDev /\ InitZone /\ InitOv

NextDevelopments == DevLoad \/ DevFinishLoad \/ FindDevelopments

SpecDevelopments == InitDevelopments /\ [][NextDevelopments]_vars

\* The first address of the list that begins with a digit, None without one.
FirstCompleteAddress(addresses) ==
    IF \E i \in 1..Len(addresses) : has_complete_address(addresses[i])
    THEN addresses[CHOOSE i \in 1..Len(addresses) :
                     /\ has_complete_address(addresses[i])
                     /\ \A j \in 1..(i - 1) : ~has_complete_address(addresses[j])]
    ELSE None

\* The key of the claim: first parcel, else first address that begins with a
\* digit, else the identifier.
CompleteAddressKey(proj) ==
    IF proj.parcels # <<>> THEN proj.parcels[1]
    ELSE IF FirstCompleteAddress(proj.addresses) # None
         THEN FirstCompleteAddress(proj.addresses)
    ELSE proj.permit_id

\* The key of the amended claim: first parcel, else first address, else the
\* identifier.
FirstAddressKey(proj) ==
    IF proj.parcels # <<>> THEN proj.parcels[1]
    ELSE IF proj.addresses # <<>> THEN proj.addresses[1]
    ELSE proj.permit_id

\* C10 (as claimed): no two returned projects have the same key, the key
\* being the first parcel, else the first address that begins with a digit,
\* else the identifier.
NoSharedCompleteAddressKey ==
    dev_pc = "done" =>
        \A i, j \in 1..Len(developments) :
            i # j => CompleteAddressKey(developments[i]) # CompleteAddressKey(developments[j])

\* C10 (amended): no two returned projects have the same key, the key being
\* the first parcel, else the first address whether or not it begins with a
\* digit, else the identifier.
NoSharedFirstAddressKey ==
    dev_pc = "done" =>
        \A i, j \in 1..Len(developments) :
            i # j => FirstAddressKey(developments[i]) # FirstAddressKey(developments[j])

\* Two assembled projects shared a key, one of them was returned and the
\* other was not.
DuplicateKeyDropped ==
    /\ dev_pc = "done"
    /\ \E i, j \in 1..Len(candidates) :
          /\ i # j
          /\ FirstAddressKey(candidates[i]) = FirstAddressKey(candidates[j])
          /\ \E k \in 1..Len(developments) : developments[k] = candidates[i]
          /\ \A k \in 1..Len(developments) : developments[k] # candidates[j]


\* The project has a parcel or an address whose first character is a digit.
Digits == {"0", "1", "2", "3", "4", "5", "6", "7", "8", "9"}
IsComplete(proj) ==
    \/ Len(proj.parcels) > 0
    \/ \E i \in 1..Len(proj.addresses) :
          Len(proj.addresses[i]) > 0 /\ proj.addresses[i][1] \in Digits

\* C12: every returned project is a survivor of the deduplication that has a
\* parcel or an address that begins with a digit, and every survivor that has
\* one is returned.
ReturnedAreTheCompleteSurvivors ==
    dev_pc = "done" =>
        /\ \A k \in 1..Len(developments) :
              /\ IsComplete(developments[k])
              /\ \E i \in 1..Len(deduped) : deduped[i] = developments[k]
        /\ \A i \in 1..Len(deduped) :
              IsComplete(deduped[i]) =>
                  \E k \in 1..Len(developments) : developments[k] = deduped[i]

\* A survivor with an address that begins with a letter and without a parcel
\* was dropped, and another survivor was returned.
IncompleteSurvivorDropped ==
    /\ dev_pc = "done"
    /\ Len(developments) > 0
    /\ \E i \in 1..Len(deduped) :
          /\ deduped[i].parcels = <<>>
          /\ deduped[i].addresses # <<>>
          /\ \A k \in 1..Len(developments) : developments[k] # deduped[i]

-----------------------------------------------------------------------------
(* SpecDedup: find_developments on permits that share a parcel and differ in
   status and unit count. *)

MaxDedupPermits == 3

DedupStatuses == {"APPROVED", "WITHDRAWN", "VOID"}
DedupUnits == {50, 80}

DedupLoad ==
    /\ ~loaded
    /\ dev_pc = "idle"
    /\ Len(permits) < MaxDedupPermits
    /\ \E parcel \in DevParcels, status \in DedupStatuses, units \in DedupUnits :
          LoadPermit(DevPermit(DevIdAt(Len(permits) + 1), <<>>, <<>>, <<>>, parcel,
                               status, units, "Site Plan", "", "Multi-Family"),
                     MaxDedupPermits)
    /\ UNCHANGED <<treeVars, fetchVars, detVars, zoneVars, ovVars, normVars, graphVars, travVars, albVars, devVars>>

InitDedup == InitLater /\ InitStore /\ InitNorm /\ InitGraph /\ InitTrav /\ InitAlb /\ InitDev /\ InitZone /\ InitOv

NextDedup == DedupLoad \/ DevFinishLoad \/ FindDevelopments

SpecDedup == InitDedup /\ [][NextDedup]_vars

\* The assembled projects that share the key of proj.
KeyGroup(proj) ==
    {i \in 1..Len(candidates) : FirstAddressKey(candidates[i]) = FirstAddressKey(proj)}

\* a beats b: a strictly greater (status priority, unit count) pair, the
\* priority first, the unit count only between equal priorities.
Beats(a, b) ==
    \/ status_priority(a.status) > status_priority(b.status)
    \/ /\ status_priority(a.status) = status_priority(b.status)
       /\ OrZero(a.units) > OrZero(b.units)

\* C11: every key group has a single survivor, a member of the group; the
\* survivor is not void when the group has a member that is not void, and no
\* preferred member of the group (the non-void ones, or all when all are
\* void) beats it by (status priority, unit count).
SurvivorIsBestOfGroup ==
    dev_pc = "done" =>
        /\ \A i \in 1..Len(candidates) :
              Cardinality({k \in 1..Len(deduped) :
                             FirstAddressKey(deduped[k]) = FirstAddressKey(candidates[i])}) = 1
        /\ \A k \in 1..Len(deduped) :
              LET s == deduped[k]
                  group == KeyGroup(s)
                  active == {i \in group : candidates[i].status # "VOID"}
                  preferred == IF active # {} THEN active ELSE group
              IN  /\ \E i \in preferred : candidates[i] = s
                  /\ \A i \in preferred : ~Beats(candidates[i], s)

\* An APPROVED project of 50 units survived over a WITHDRAWN one of 80 units
\* and a VOID one under the same key.
ApprovedSurvivesWithdrawn ==
    /\ dev_pc = "done"
    /\ \E k \in 1..Len(deduped) :
          /\ deduped[k].status = "APPROVED"
          /\ deduped[k].units = 50
          /\ \E i, j \in KeyGroup(deduped[k]) :
                /\ candidates[i].status = "WITHDRAWN" /\ candidates[i].units = 80
                /\ candidates[j].status = "VOID"


-----------------------------------------------------------------------------
(* Dates of a permit (top_developments.py:51-57, 144-203; models.py:64-70,
   106-112, 148-160).

   A datetime is the integer yyyymmdd of its day: parse_date only yields
   midnights.  A permit of this part has the fields the date functions read:
   permit_type and sub_type from search_result, permit_number from info,
   tasks with description, result and date_completed, payments with
   payment_date, and date_created from search_result. *)

DatedPermit(pid, ptype, subtype, pnum, tasks, payments, created) ==
    [permit_id |-> pid, permit_type |-> ptype, sub_type |-> subtype,
     permit_number |-> pnum, tasks |-> tasks, payments |-> payments,
     date_created |-> created]

Task(description, result, date_completed) ==
    [description |-> description, result |-> result, date_completed |-> date_completed]

Payment(payment_date) == [payment_date |-> payment_date]

\* datetime(y, m, d)
MakeDate(y, m, d) == y * 10000 + m * 100 + d

\* parse_date(date_str) on the date strings of the model: None for an empty
\* string and for one that strptime("%m/%d/%Y") rejects after strip().
parse_date(date_str) ==
    CASE date_str = "11/01/2023" -> MakeDate(2023, 11, 1)
      [] date_str = " 11/20/2023 " -> MakeDate(2023, 11, 20)
      [] date_str = "11/25/2023" -> MakeDate(2023, 11, 25)
      [] date_str = "12/01/2023" -> MakeDate(2023, 12, 1)
      [] date_str = "12/05/2023" -> MakeDate(2023, 12, 5)
      [] date_str = "12/17/2023" -> MakeDate(2023, 12, 17)
      [] date_str = "12/18/2023" -> MakeDate(2023, 12, 18)
      [] date_str = "01/15/2024" -> MakeDate(2024, 1, 15)
      [] date_str = "02/01/2024" -> MakeDate(2024, 2, 1)
      [] date_str = "02/18/2024" -> MakeDate(2024, 2, 18)
      [] date_str = "02/19/2024" -> MakeDate(2024, 2, 19)
      [] date_str = "03/01/2024" -> MakeDate(2024, 3, 1)
      [] date_str = "" -> NoDate
      [] date_str = " " -> NoDate
      [] date_str = "N/A" -> NoDate
      [] date_str = "13/45/2023" -> NoDate
      [] date_str = "2023-12-01" -> NoDate
      [] OTHER -> NoDate

\* None for a permit number without a year.
NoYear == 0

\* Permit.permit_year on the permit numbers of the model.
permit_year(permit) ==
    CASE permit.permit_number = "ZM23-00004" -> 2023
      [] permit.permit_number = "P24-0001" -> 2024
      [] permit.permit_number = "SP98-00001" -> 1998
      [] permit.permit_number = "12345" -> NoYear
      [] permit.permit_number = "" -> NoYear
      [] OTHER -> NoYear

\* min(dates) for a non-empty list
MinOf(dates) == CHOOSE d \in Elems(dates) : \A e \in Elems(dates) : d <= e

\* max(dates) for a non-empty list
MaxOf(dates) == CHOOSE d \in Elems(dates) : \A e \in Elems(dates) : d >= e

\* The parseable dates of a list of date strings, in order.
ParsedDates(strs) ==
    SelectSeq([i \in 1..Len(strs) |-> parse_date(strs[i])], LAMBDA dt : dt # NoDate)

RECURSIVE EarliestOf(_, _)
EarliestOf(dates, earliest) ==
    IF dates = <<>> THEN earliest
    ELSE EarliestOf(Tail(dates),
                    IF earliest = NoDate \/ Head(dates) < earliest
                    THEN Head(dates) ELSE earliest)

get_earliest_payment_date(permit) ==
    EarliestOf(ParsedDates([i \in 1..Len(permit.payments) |->
                              permit.payments[i].payment_date]), NoDate)

\* get_submission_date with the completion date of every task as a candidate.
get_submission_date_any_task(permit) ==
    LET task_dates == ParsedDates([i \in 1..Len(permit.tasks) |->
                                     permit.tasks[i].date_completed])
        payment_date == get_earliest_payment_date(permit)
        created == parse_date(permit.date_created)
        found == task_dates
                 \o (IF payment_date # NoDate THEN <<payment_date>> ELSE <<>>)
                 \o (IF created # NoDate THEN <<created>> ELSE <<>>)
    IN  IF found = <<>> /\ permit_year(permit) # NoYear
        THEN MakeDate(permit_year(permit), 1, 1)
        ELSE IF found # <<>> THEN MinOf(found) ELSE NoDate

get_submission_date(permit) ==
    LET intake == SelectSeq(permit.tasks,
                            LAMBDA task : task.description = "Intake Application")
        task_dates == ParsedDates([i \in 1..Len(intake) |-> intake[i].date_completed])
        payment_date == get_earliest_payment_date(permit)
        created == parse_date(permit.date_created)
        found == task_dates
                 \o (IF payment_date # NoDate THEN <<payment_date>> ELSE <<>>)
                 \o (IF created # NoDate THEN <<created>> ELSE <<>>)
    IN  IF found = <<>> /\ permit_year(permit) # NoYear
        THEN MakeDate(permit_year(permit), 1, 1)
        ELSE IF found # <<>> THEN MinOf(found) ELSE NoDate

-----------------------------------------------------------------------------
(* SpecSubmission: get_submission_date on one permit. *)

MaxTasks == 2
MaxPayments == 2

SubTasks ==
    {Task("Intake Application", "", "12/01/2023"),
     Task("Intake Application", "", "N/A"),
     Task("Review", "", "11/01/2023")}
SubPayments == {Payment("01/15/2024"), Payment("11/25/2023"), Payment("13/45/2023")}
SubCreated == {"", "12/05/2023", " 11/20/2023 "}
SubPermitNumbers == {"", "ZM23-00004", "12345"}

InitSubmission ==
    /\ InitLater /\ InitStore /\ InitNorm /\ InitGraph /\ InitTrav /\ InitAlb /\ InitDev /\ InitOv
    /\ \E tasks \in SeqsUpTo(SubTasks, MaxTasks),
          payments \in SeqsUpTo(SubPayments, MaxPayments),
          created \in SubCreated, pnum \in SubPermitNumbers :
          sub_permit = DatedPermit(<<"1">>, "Site Plan", "", pnum, tasks, payments, created)
    /\ sub_result = <<>>
    /\ zoning_related = <<>>
    /\ zoning_result = <<>>

GetSubmissionDate ==
    /\ sub_result = <<>>
    /\ sub_result' = <<get_submission_date(sub_permit)>>
    /\ UNCHANGED <<sub_permit, zoning_related, zoning_result>>
    /\ UNCHANGED <<treeVars, fetchVars, detVars, storeVars, normVars, graphVars, travVars, albVars, devVars, ovVars>>

NextSubmission == GetSubmissionDate

SpecSubmission == InitSubmission /\ [][NextSubmission]_vars

\* The dates that count as signals of the submission: the parseable ones
\* among the completion dates of the "Intake Application" tasks, the payment
\* dates and the creation date.
SubmissionSignals(permit) ==
    ({parse_date(permit.tasks[i].date_completed) :
        i \in {j \in 1..Len(permit.tasks) :
                 permit.tasks[j].description = "Intake Application"}}
     \cup {parse_date(permit.payments[i].payment_date) : i \in 1..Len(permit.payments)}
     \cup {parse_date(permit.date_created)}) \ {NoDate}

-----------------------------------------------------------------------------
(* get_zoning_code (top_developments.py:26-48, 135-141, 185-264). *)

QUALIFYING_PERMIT_TYPES == {"Site Plan"}
QUALIFYING_PLANNING_SUBTYPES ==
    {"Rezoning", "Development Plan Review - Major", "Development Plan Review - Minor",
     "Special Use", "Special Exception Permit", "Preliminary Subdivision Plat Review"}

\* datetime(2024, 2, 19)
APPROVAL_CUTOFF == 20240219

\* datetime(2023, 12, 18)
SUBMISSION_CUTOFF == 20231218

is_qualifying_permit(permit) ==
    \/ permit.permit_type \in QUALIFYING_PERMIT_TYPES
    \/ /\ permit.permit_type = "Planning"
       /\ permit.sub_type \in QUALIFYING_PLANNING_SUBTYPES

\* "Final Approval" in description, on the task descriptions of the model
HasFinalApproval(description) ==
    description \in {"Final Approval", "Planning Final Approval"}

\* "Final Site Plan Approved" in description, on the task descriptions of the model
HasFinalSitePlanApproved(description) ==
    description \in {"Final Site Plan Approved?"}

get_approval_date(permit) ==
    LET IsFinal(task) ==
            /\ HasFinalApproval(task.description)
            /\ task.result \in {"YES_APPR", "YES", "APPROVED", "APPRV_PC"}
        IsSitePlan(task) ==
            /\ HasFinalSitePlanApproved(task.description)
            /\ task.result \in {"YES_APPR", "YES", "APPROVED"}
        final == SelectSeq(permit.tasks, IsFinal)
        site_plan == SelectSeq(permit.tasks, IsSitePlan)
    IN  IF final # <<>> THEN parse_date(final[1].date_completed)
        ELSE IF site_plan # <<>> THEN parse_date(site_plan[1].date_completed)
        ELSE NoDate

\* The characters of "submitted " and of "approved ".
SubmittedText == <<"s", "u", "b", "m", "i", "t", "t", "e", "d", " ">>
ApprovedText == <<"a", "p", "p", "r", "o", "v", "e", "d", " ">>

\* f"{kind}{date.strftime('%Y-%m-%d')} ({permit_id})"
code_reason(kind, date, permit_id) ==
    kind \o isoformat(date) \o <<" ", "(">> \o permit_id \o <<")">>

\* The loop of get_zoning_code: the earliest dates of the qualifying permits
\* and the permits they come from, the first one on equal dates.
RECURSIVE EarliestDates(_, _)
EarliestDates(related, acc) ==
    IF related = <<>> THEN acc
    ELSE LET permit == Head(related)
             submitted == get_submission_date(permit)
             approved == get_approval_date(permit)
             takes_sub == /\ submitted # NoDate
                          /\ (acc.submitted = NoDate \/ submitted < acc.submitted)
             takes_app == /\ approved # NoDate
                          /\ (acc.approved = NoDate \/ approved < acc.approved)
         IN  IF ~is_qualifying_permit(permit) THEN EarliestDates(Tail(related), acc)
             ELSE EarliestDates(Tail(related),
                    [submitted |-> IF takes_sub THEN submitted ELSE acc.submitted,
                     submitted_permit_id |->
                        IF takes_sub THEN permit.permit_id ELSE acc.submitted_permit_id,
                     approved |-> IF takes_app THEN approved ELSE acc.approved,
                     approved_permit_id |->
                        IF takes_app THEN permit.permit_id ELSE acc.approved_permit_id])

ZoningResult(code, reason, date) ==
    [code |-> code, reason |-> reason, qualifying_date |-> date]

\* get_zoning_code with the approval date checked before the submission date.
get_zoning_code_approval_first(related) ==
    LET e == EarliestDates(related, [submitted |-> NoDate, submitted_permit_id |-> None,
                                     approved |-> NoDate, approved_permit_id |-> None])
    IN  IF e.approved # NoDate /\ e.approved < APPROVAL_CUTOFF
        THEN ZoningResult("2003", code_reason(ApprovedText, e.approved, e.approved_permit_id),
                          e.approved)
        ELSE IF e.submitted # NoDate /\ e.submitted < SUBMISSION_CUTOFF
        THEN ZoningResult("2003",
                          code_reason(SubmittedText, e.submitted, e.submitted_permit_id),
                          e.submitted)
        ELSE IF e.submitted # NoDate
        THEN ZoningResult("2023",
                          code_reason(SubmittedText, e.submitted, e.submitted_permit_id),
                          e.submitted)
        ELSE ZoningResult("?", None, NoDate)

get_zoning_code(related) ==
    LET e == EarliestDates(related, [submitted |-> NoDate, submitted_permit_id |-> None,
                                     approved |-> NoDate, approved_permit_id |-> None])
    IN  IF e.submitted # NoDate /\ e.submitted < SUBMISSION_CUTOFF
        THEN ZoningResult("2003",
                          code_reason(SubmittedText, e.submitted, e.submitted_permit_id),
                          e.submitted)
        ELSE IF e.approved # NoDate /\ e.approved < APPROVAL_CUTOFF
        THEN ZoningResult("2003", code_reason(ApprovedText, e.approved, e.approved_permit_id),
                          e.approved)
        ELSE IF e.submitted # NoDate
        THEN ZoningResult("2023",
                          code_reason(SubmittedText, e.submitted, e.submitted_permit_id),
                          e.submitted)
        ELSE ZoningResult("?", None, NoDate)

-----------------------------------------------------------------------------
(* SpecZoning: get_zoning_code on a list of permits. *)

MaxRelated == 2

ZoningTypes == {<<"Site Plan", "">>, <<"Planning", "Rezoning">>, <<"Planning", "Sign Review">>}
ZoningIntake == {"", "12/01/2023", "12/18/2023", "01/15/2024"}
ZoningApproval ==
    {<<>>,
     <<Task("Final Approval", "YES", "02/01/2024")>>,
     <<Task("Final Approval", "YES", "02/19/2024")>>,
     <<Task("Final Approval", "NO", "02/01/2024"),
       Task("Final Site Plan Approved?", "APPROVED", "02/18/2024")>>}

InitZoning ==
    /\ InitLater /\ InitStore /\ InitNorm /\ InitGraph /\ InitTrav /\ InitAlb /\ InitDev /\ InitOv
    /\ sub_permit = <<>>
    /\ sub_result = <<>>
    /\ \E n \in 0..MaxRelated :
          \E types \in [1..n -> ZoningTypes], intake \in [1..n -> ZoningIntake],
             approval \in [1..n -> ZoningApproval] :
             zoning_related =
                [i \in 1..n |->
                    DatedPermit(DevIdAt(i), types[i][1], types[i][2], "",
                                <<Task("Intake Application", "", intake[i])>> \o approval[i],
                                <<>>, "")]
    /\ zoning_result = <<>>

GetZoningCode ==
    /\ zoning_result = <<>>
    /\ zoning_result' = <<get_zoning_code(zoning_related)>>
    /\ UNCHANGED <<sub_permit, sub_result, zoning_related>>
    /\ UNCHANGED <<treeVars, fetchVars, detVars, storeVars, normVars, graphVars, travVars, albVars, devVars, ovVars>>

NextZoning == GetZoningCode

SpecZoning == InitZoning /\ [][NextZoning]_vars

\* The qualifying permits of the list that have a submission date, and those
\* that have an approval date.
WithSubmission ==
    {i \in 1..Len(zoning_related) :
        /\ is_qualifying_permit(zoning_related[i])
        /\ get_submission_date(zoning_related[i]) # NoDate}
WithApproval ==
    {i \in 1..Len(zoning_related) :
        /\ is_qualifying_permit(zoning_related[i])
        /\ get_approval_date(zoning_related[i]) # NoDate}

\* The submission and the approval date of every permit of the list.
SubmissionDates == [i \in 1..Len(zoning_related) |-> get_submission_date(zoning_related[i])]
ApprovalDates == [i \in 1..Len(zoning_related) |-> get_approval_date(zoning_related[i])]

\* The result has the code, and names the earliest of the dates of the
\* permits in S and one of the permits that have it.
Justified(result, code, kind, S, dates) ==
    /\ result.code = code
    /\ \A i \in S : result.qualifying_date <= dates[i]
    /\ \E i \in S :
          /\ dates[i] = result.qualifying_date
          /\ result.reason = code_reason(kind, result.qualifying_date,
                                         zoning_related[i].permit_id)

\* C13: get_zoning_code answers 2003 by the earliest qualifying submission
\* date when that date is before the submission cutoff; else 2003 by the
\* earliest qualifying approval date when that date is before the approval
\* cutoff; else 2023 by the earliest qualifying submission date when there is
\* one; else "?" without a reason and a date.
ZoningCodeAsSpecified ==
    zoning_result # <<>> =>
        LET r == zoning_result[1]
            SubBefore == \E i \in WithSubmission : SubmissionDates[i] < SUBMISSION_CUTOFF
            AppBefore == \E i \in WithApproval : ApprovalDates[i] < APPROVAL_CUTOFF
        IN  IF SubBefore
            THEN Justified(r, "2003", SubmittedText, WithSubmission, SubmissionDates)
            ELSE IF AppBefore
            THEN Justified(r, "2003", ApprovedText, WithApproval, ApprovalDates)
            ELSE IF WithSubmission # {}
            THEN Justified(r, "2023", SubmittedText, WithSubmission, SubmissionDates)
            ELSE r = ZoningResult("?", None, NoDate)

\* The older code by the approval date of a qualifying permit whose
\* submission date is not before its cutoff, next to a permit that does not
\* qualify and has a submission date before the cutoff.
ZoningByApproval ==
    /\ zoning_result # <<>>
    /\ zoning_result[1].code = "2003"
    /\ zoning_result[1].qualifying_date = 20240218
    /\ \E i, j \in 1..Len(zoning_related) :
          /\ ~is_qualifying_permit(zoning_related[i])
          /\ get_submission_date(zoning_related[i]) = 20231201
          /\ is_qualifying_permit(zoning_related[j])
          /\ get_submission_date(zoning_related[j]) = 20231218
          /\ get_approval_date(zoning_related[j]) = 20240218

-----------------------------------------------------------------------------
(* apply_overrides of top_developments.py and of albemarle/build_projects.py.

   A dict is a function from its keys: `key in d` is key \in DOMAIN d, the
   empty dict is <<>>.  impl names the module: "top_developments" keys the
   projects by permit_id, "build_projects" by plan_number. *)

LowerCase ==
    <<"a", "b", "c", "d", "e", "f", "g", "h", "i", "j", "k", "l", "m",
      "n", "o", "p", "q", "r", "s", "t", "u", "v", "w", "x", "y", "z">>
UpperCase ==
    <<"A", "B", "C", "D", "E", "F", "G", "H", "I", "J", "K", "L", "M",
      "N", "O", "P", "Q", "R", "S", "T", "U", "V", "W", "X", "Y", "Z">>

\* str.upper()
Upper(s) ==
    [i \in 1..Len(s) |->
        IF \E n \in 1..26 : LowerCase[n] = s[i]
        THEN UpperCase[CHOOSE n \in 1..26 : LowerCase[n] = s[i]]
        ELSE s[i]]

\* d.get(key, default)
DictGet(d, key, default) == IF key \in DOMAIN d THEN d[key] ELSE default

\* The lists of a list, one after the other.
RECURSIVE Flatten(_)
Flatten(lists) ==
    IF lists = <<>> THEN <<>> ELSE Head(lists) \o Flatten(Tail(lists))

\* "OVERRIDE" as the permit_id of a project, a string of characters
OVERRIDE == <<"O", "V", "E", "R", "R", "I", "D", "E">>

\* The key of the lookup index by identifier.
id_key(impl) == IF impl = "top_developments" THEN "permit_id" ELSE "plan_number"

\* [addr.upper() for addr in p.get("addresses", [])]
upper_addresses(p) == [i \in 1..Len(p["addresses"]) |-> Upper(p["addresses"][i])]

\* by_permit_id / by_plan_number: the position in the list of the project
\* the index holds under id, the last one with that id; 0 when id is no key.
by_id(projs, key, id) ==
    LET at == {i \in 1..Len(projs) : projs[i][key] = id}
    IN  IF at = {} THEN 0 ELSE CHOOSE i \in at : \A j \in at : j <= i

\* The keys of by_address in the order of their insertion.
by_address_keys(projs) ==
    UniqueInOrder(Flatten([i \in 1..Len(projs) |-> upper_addresses(projs[i])]),
                  None)

\* by_address[addr]: the position of the last project with that address.
by_address(projs, addr) ==
    LET at == {i \in 1..Len(projs) : addr \in Elems(upper_addresses(projs[i]))}
    IN  CHOOSE i \in at : \A j \in at : j <= i

\* omit_permit_ids / omit_plan_numbers
omit_ids(key, overrides) ==
    LET omits == DictGet(overrides, "omit", <<>>)
    IN  {omits[i][key] : i \in {n \in 1..Len(omits) : key \in DOMAIN omits[n]}}

\* omit_addresses
omit_addresses(overrides) ==
    LET omits == DictGet(overrides, "omit", <<>>)
        with == SelectSeq(omits, LAMBDA o : "address" \in DOMAIN o)
    IN  [i \in 1..Len(with) |-> Upper(with[i]["address"])]

\* should_omit with a case-sensitive comparison of whole addresses.
should_omit_exact_address(p, key, ids, addresses) ==
    \/ p[key] \in ids
    \/ \E i \in 1..Len(p["addresses"]), j \in 1..Len(addresses) :
          p["addresses"][i] = addresses[j]

\* should_omit, ids and addresses being the omit sets of the enclosing call
should_omit(p, key, ids, addresses) ==
    \/ p[key] \in ids
    \/ \E i \in 1..Len(p["addresses"]), j \in 1..Len(addresses) :
          StartsWith(Upper(p["addresses"][i]), addresses[j])

\* The positions, in order, of the projects the omissions keep: the list
\* comprehension `[p for p in projects if not should_omit(p)]`.
kept_positions(impl, projs, overrides) ==
    SelectSeq([i \in 1..Len(projs) |-> i],
              LAMBDA i : ~should_omit(projs[i], id_key(impl),
                                      omit_ids(id_key(impl), overrides),
                                      omit_addresses(overrides)))

\* The allowlist with the project number in it.
revise_keys_with_project_number(impl) ==
    IF impl = "top_developments"
    THEN <<"units", "use_type", "status", "zone", "zoning_code", "developer",
           "project_number">>
    ELSE <<"units", "lots", "plan_type", "status", "zone", "district",
           "project_name", "project_number">>

\* The keys a revision copies to its target.
revise_keys(impl) ==
    IF impl = "top_developments"
    THEN <<"units", "use_type", "status", "zone", "zoning_code", "developer">>
    ELSE <<"units", "lots", "plan_type", "status", "zone", "district",
           "project_name">>

\* The target of a revision that falls back to the first project.
revise_target_or_first(projs, key, rev) ==
    IF key \in DOMAIN rev /\ by_id(projs, key, rev[key]) # 0
    THEN by_id(projs, key, rev[key])
    ELSE LET first == IF projs # <<>> THEN 1 ELSE 0
         IN  IF "address" \in DOMAIN rev
             THEN LET rev_addr == Upper(rev["address"])
                      addrs == by_address_keys(projs)
                      starting == SelectSeq(addrs, LAMBDA addr : StartsWith(addr, rev_addr))
                  IN  IF rev_addr \in Elems(addrs) THEN by_address(projs, rev_addr)
                      ELSE IF starting # <<>> THEN by_address(projs, starting[1])
                      ELSE first
             ELSE first

\* The target of a revision: its position in the list the indices were built
\* from, 0 for `target = None`.
revise_target(projs, key, rev) ==
    IF key \in DOMAIN rev /\ by_id(projs, key, rev[key]) # 0
    THEN by_id(projs, key, rev[key])
    ELSE IF "address" \in DOMAIN rev
    THEN LET rev_addr == Upper(rev["address"])
             addrs == by_address_keys(projs)
             starting == SelectSeq(addrs, LAMBDA addr : StartsWith(addr, rev_addr))
         IN  IF rev_addr \in Elems(addrs) THEN by_address(projs, rev_addr)
             ELSE IF starting # <<>> THEN by_address(projs, starting[1])
             ELSE 0
    ELSE 0

\* target after `if key in rev: target[key] = rev[key]` for the keys
revise(target, rev, keys) ==
    LET copied == Elems(keys) \cap DOMAIN rev
    IN  [k \in DOMAIN target \cup copied |->
            IF k \in copied THEN rev[k] ELSE target[k]]

\* The projects of the indices after one revision; the target is changed in
\* place, so the same project of the list the omissions left changes with it.
revise_one(projs, impl, rev) ==
    LET target == revise_target(projs, id_key(impl), rev)
    IN  [i \in 1..Len(projs) |->
            IF i = target THEN revise(projs[i], rev, revise_keys(impl))
            ELSE projs[i]]

\* The projects of the indices after each revision of revs in turn.
RECURSIVE revise_steps(_, _, _)
revise_steps(projs, impl, revs) ==
    IF revs = <<>> THEN <<>>
    ELSE LET next == revise_one(projs, impl, Head(revs))
         IN  <<next>> \o revise_steps(next, impl, Tail(revs))

\* The projects of the indices after the loop over overrides["revise"].
revise_all(projs, impl, overrides) ==
    LET steps == revise_steps(projs, impl, DictGet(overrides, "revise", <<>>))
    IN  IF steps = <<>> THEN projs ELSE steps[Len(steps)]

\* The dict appended to projects for an entry of overrides["add"].
added_project(impl, add) ==
    IF impl = "top_developments"
    THEN [units |-> DictGet(add, "units", NoCount),
          permit_id |-> DictGet(add, "permit_id", OVERRIDE),
          project_number |-> DictGet(add, "project_number", ""),
          use_type |-> DictGet(add, "use_type", "?"),
          status |-> DictGet(add, "status", "?"),
          addresses |-> IF "address" \in DOMAIN add THEN <<add["address"]>> ELSE <<>>,
          parcels |-> IF "parcel" \in DOMAIN add THEN <<add["parcel"]>> ELSE <<>>,
          zone |-> DictGet(add, "zone", "?"),
          zoning_code |-> DictGet(add, "zoning_code", "?"),
          code_reason |-> DictGet(add, "code_reason", None),
          qualifying_date |-> None,
          initial_submit |-> None,
          last_updated |-> None,
          permit_count |-> 0]
    ELSE [plan_id |-> DictGet(add, "plan_id", "OVERRIDE"),
          plan_number |-> DictGet(add, "plan_number", "OVERRIDE"),
          project_name |-> DictGet(add, "project_name", ""),
          project_number |-> DictGet(add, "project_number", ""),
          plan_type |-> DictGet(add, "plan_type", "?"),
          work_class |-> DictGet(add, "work_class", ""),
          status |-> DictGet(add, "status", "?"),
          units |-> DictGet(add, "units", NoCount),
          lots |-> DictGet(add, "lots", NoCount),
          addresses |-> IF "address" \in DOMAIN add THEN <<add["address"]>> ELSE <<>>,
          parcels |-> IF "parcel" \in DOMAIN add THEN <<add["parcel"]>> ELSE <<>>,
          zone |-> DictGet(add, "zone", "?"),
          district |-> DictGet(add, "district", "?"),
          application_date |-> None,
          complete_date |-> None,
          valuation |-> DictGet(add, "valuation", NoCount),
          square_footage |-> DictGet(add, "square_footage", NoCount),
          description |-> DictGet(add, "description", ""),
          plan_count |-> 0,
          related_plans |-> <<>>]

\* The loop over overrides["add"] left after its first pass.
added_projects_first_only(impl, overrides) ==
    LET adds == DictGet(overrides, "add", <<>>)
    IN  IF adds = <<>> THEN <<>> ELSE <<added_project(impl, adds[1])>>

\* The projects the loop over overrides["add"] appends.
added_projects(impl, overrides) ==
    LET adds == DictGet(overrides, "add", <<>>)
    IN  [i \in 1..Len(adds) |-> added_project(impl, adds[i])]

\* The key of the final projects.sort.
overrides_sort_key(impl, p) ==
    IF impl = "top_developments" THEN <<-OrZero(p["units"])>>
    ELSE projects_sort_key(p)

\* apply_overrides with the additions made before the omissions and the
\* revisions.
apply_overrides_add_first(impl, projs, overrides) ==
    IF DOMAIN overrides = {} THEN projs
    ELSE LET all == projs \o added_projects(impl, overrides)
             revised == revise_all(all, impl, overrides)
             kept_at == kept_positions(impl, all, overrides)
             kept == [n \in 1..Len(kept_at) |-> revised[kept_at[n]]]
         IN  Sorted(kept, [i \in 1..Len(kept) |-> overrides_sort_key(impl, kept[i])])

apply_overrides(impl, projs, overrides) ==
    IF DOMAIN overrides = {} THEN projs
    ELSE LET revised == revise_all(projs, impl, overrides)
             kept_at == kept_positions(impl, projs, overrides)
             kept == [n \in 1..Len(kept_at) |-> revised[kept_at[n]]]
             all == kept \o added_projects(impl, overrides)
         IN  Sorted(all, [i \in 1..Len(all) |-> overrides_sort_key(impl, all[i])])

-----------------------------------------------------------------------------
(* Specification of apply_overrides: a project list as find_developments or
   find_projects returns it and an overrides dict as load_overrides returns
   it, then the call of build_site. *)

MaxOvProjects == 2
MaxOvEntries == 2

OvImpls == {"top_developments", "build_projects"}

\* "1 m" and "1 m a"
OvStreet == <<"1", " ", "m">>
OvUnit == <<"1", " ", "m", " ", "a">>
OvAddresses == {<<>>, <<OvStreet>>, <<OvUnit>>}

\* The unit counts of the projects, the list being sorted by them.
OvUnitsAt(i) == CASE i = 1 -> 8 [] i = 2 -> 5 [] i = 3 -> 3 [] OTHER -> 2
OvParcelAt(impl, i) ==
    IF impl = "top_developments" THEN <<"7", Digit(i)>>
    ELSE CASE i = 1 -> "71" [] i = 2 -> "72" [] i = 3 -> "73" [] OTHER -> "74"

\* The identifier of the i-th project.
OvIdAt(impl, i) == IF impl = "top_developments" THEN DevIdAt(i) ELSE PlanNumberAt(i)

\* The i-th project of the list, with the addresses addrs.
OvProjectAt(impl, i, addrs) ==
    IF impl = "top_developments"
    THEN [units |-> OvUnitsAt(i), permit_id |-> DevIdAt(i), project_number |-> "",
          use_type |-> "Multi-Family", status |-> "APPROVED", addresses |-> addrs,
          parcels |-> <<OvParcelAt(impl, i)>>, zone |-> "R-A", zoning_code |-> "2023",
          code_reason |-> None, qualifying_date |-> isoformat(20240105),
          initial_submit |-> isoformat(20240105), last_updated |-> None,
          permit_count |-> 1]
    ELSE [plan_id |-> PlanIdAt(i), plan_number |-> PlanNumberAt(i),
          project_name |-> "", project_number |-> "",
          plan_type |-> "Site Development Plan", work_class |-> "Final",
          status |-> "Approved", units |-> OvUnitsAt(i), lots |-> NoCount,
          addresses |-> addrs, parcels |-> <<OvParcelAt(impl, i)>>, zone |-> "R1",
          district |-> "Rio", application_date |-> isoformat(20240105),
          complete_date |-> None, valuation |-> NoCount,
          square_footage |-> NoCount, description |-> "",
          plan_count |-> 1, related_plans |-> <<>>]

\* A dict with the identifier of the i-th project under the key of impl.
OvWithId(impl, i) == [k \in {id_key(impl)} |-> OvIdAt(impl, i)]

\* d1 | d2, for dicts without a common key
OvMerge(d1, d2) ==
    [k \in DOMAIN d1 \cup DOMAIN d2 |-> IF k \in DOMAIN d1 THEN d1[k] ELSE d2[k]]

OvOmits(impl) ==
    {OvWithId(impl, 2), [address |-> OvStreet], [reason |-> "cancelled"]}

OvLocators(impl) ==
    {<<>>, OvWithId(impl, 2), [address |-> OvStreet],
     OvMerge(OvWithId(impl, 1), [address |-> OvStreet]),
     OvMerge(OvWithId(impl, MaxOvProjects + 1), [address |-> OvStreet])}

OvPayloads == {[units |-> 9], [status |-> "DENIED", project_number |-> "X"]}

OvRevisions(impl) ==
    {OvMerge(l, p) : l \in OvLocators(impl), p \in OvPayloads}

OvAdditions(impl) ==
    {<<>>,
     [address |-> OvStreet, units |-> 9],
     OvMerge(OvWithId(impl, 1),
             [address |-> OvStreet, status |-> "PLANNED",
              qualifying_date |-> isoformat(20240301),
              application_date |-> isoformat(20240301)])}

\* The dict of an overrides file with the sections that have entries.
OvDict(omits, revisions, additions) ==
    LET sections == (IF omits # <<>> THEN {"omit"} ELSE {})
                    \cup (IF revisions # <<>> THEN {"revise"} ELSE {})
                    \cup (IF additions # <<>> THEN {"add"} ELSE {})
    IN  [k \in sections |->
            IF k = "omit" THEN omits ELSE IF k = "revise" THEN revisions
            ELSE additions]

InitOverrides ==
    /\ InitLater /\ InitStore /\ InitNorm /\ InitGraph /\ InitTrav /\ InitAlb /\ InitDev
    /\ InitZone
    /\ \E impl \in OvImpls :
          /\ ov_impl = impl
          /\ \E n \in 0..MaxOvProjects :
                \E addrs \in [1..n -> OvAddresses] :
                   ov_projects = [i \in 1..n |-> OvProjectAt(impl, i, addrs[i])]
          /\ \E no \in 0..MaxOvEntries :
                \E nr \in 0..(MaxOvEntries - no) :
                   \E na \in 0..(MaxOvEntries - no - nr) :
                      \E omits \in [1..no -> OvOmits(impl)],
                         revisions \in [1..nr -> OvRevisions(impl)],
                         additions \in [1..na -> OvAdditions(impl)] :
                         ov_overrides = OvDict(omits, revisions, additions)
    /\ ov_input = ov_projects
    /\ ov_stages = <<>>
    /\ ov_result = <<>>
    /\ ov_pc = "idle"

\* projects = apply_overrides(projects, overrides) of build_site; the
\* revisions write to the dicts of the list passed in, which ov_input shows
\* as the caller still holds it, ov_projects being its value at the call;
\* ov_stages keeps the positions the omissions kept, the target and the list of the
\* indices after each revision, and the projects the additions appended.
ApplyOverrides ==
    /\ ov_pc = "idle"
    /\ ov_result' = apply_overrides(ov_impl, ov_projects, ov_overrides)
    /\ ov_stages' =
          LET revs == DictGet(ov_overrides, "revise", <<>>)
              steps == revise_steps(ov_projects, ov_impl, revs)
          IN  [kept_at |-> kept_positions(ov_impl, ov_projects, ov_overrides),
               targets |-> [k \in 1..Len(revs) |->
                               revise_target(ov_projects, id_key(ov_impl), revs[k])],
               steps |-> steps,
               added |-> added_projects(ov_impl, ov_overrides)]
    /\ ov_input' = IF DOMAIN ov_overrides = {} THEN ov_input
                    ELSE revise_all(ov_input, ov_impl, ov_overrides)
    /\ ov_pc' = "done"
    /\ UNCHANGED <<ov_impl, ov_projects, ov_overrides>>
    /\ UNCHANGED <<treeVars, fetchVars, detVars, storeVars, normVars, graphVars, travVars, albVars, devVars, zoneVars>>

NextOverrides == ApplyOverrides

SpecOverrides == InitOverrides /\ [][NextOverrides]_vars

-----------------------------------------------------------------------------
(* Claims about apply_overrides *)

\* The number of times x is in the list.
Occurrences(x, list) == Cardinality({i \in 1..Len(list) : list[i] = x})

\* The list of the indices after the last revision.
OvRevised ==
    IF ov_stages.steps = <<>> THEN ov_projects
    ELSE ov_stages.steps[Len(ov_stages.steps)]

\* The projects the omissions kept, as the revisions left them.
OvKept == [n \in 1..Len(ov_stages.kept_at) |-> OvRevised[ov_stages.kept_at[n]]]

\* C15: the result holds the input projects the omissions kept, with the
\* values the revisions gave them, and one project for every addition, built
\* from its entry alone: no omission removes an added project and no revision
\* alters it, whatever identifier or address it carries.
StagesInOrder ==
    ov_pc = "done" =>
        LET adds == DictGet(ov_overrides, "add", <<>>)
            expected == OvKept \o [i \in 1..Len(adds) |-> added_project(ov_impl, adds[i])]
        IN  /\ Len(ov_result) = Len(expected)
            /\ \A x \in Elems(expected) : Occurrences(x, ov_result) = Occurrences(x, expected)

\* An addition that carries the identifier of an input project and an
\* address an omission names is in the result, next to nothing else: the
\* omission removed every input project.
AddedProjectSurvivesOmission ==
    /\ ov_pc = "done"
    /\ ov_projects # <<>>
    /\ "omit" \in DOMAIN ov_overrides /\ "add" \in DOMAIN ov_overrides
    /\ ov_overrides["omit"] = <<[address |-> OvStreet]>>
    /\ id_key(ov_impl) \in DOMAIN ov_overrides["add"][1]
    /\ Len(ov_result) = 1
    /\ ov_result[1][id_key(ov_impl)] = ov_projects[1][id_key(ov_impl)]
    /\ ov_result[1]["addresses"] = <<OvStreet>>
    /\ ov_result[1]["status"] = "PLANNED"


\* The positions in the result of the projects with the identifier id.
OvResultWithId(id) ==
    {k \in 1..Len(ov_result) : ov_result[k][id_key(ov_impl)] = id}

\* The additions that carry the identifier id.
OvAdditionsWithId(id) ==
    LET adds == DictGet(ov_overrides, "add", <<>>)
    IN  {n \in 1..Len(adds) :
            id_key(ov_impl) \in DOMAIN adds[n] /\ adds[n][id_key(ov_impl)] = id}

\* An omit entry names the i-th input project: by its identifier, or by an
\* address that one of the project's addresses begins with, both in upper
\* case.
OvNamedByOmission(i) ==
    LET omits == DictGet(ov_overrides, "omit", <<>>)
        p == ov_projects[i]
    IN  \E n \in 1..Len(omits) :
           \/ /\ id_key(ov_impl) \in DOMAIN omits[n]
              /\ omits[n][id_key(ov_impl)] = p[id_key(ov_impl)]
           \/ /\ "address" \in DOMAIN omits[n]
              /\ \E a \in Elems(p["addresses"]) :
                    StartsWith(Upper(a), Upper(omits[n]["address"]))

\* C16: an input project is absent from the result exactly when an omit
\* entry names it by identifier or by address prefix; the projects of the
\* result with its identifier are then the additions that carry it.
OmittedIffNamed ==
    ov_pc = "done" =>
        \A i \in 1..Len(ov_projects) :
            Cardinality(OvResultWithId(ov_projects[i][id_key(ov_impl)]))
            = (IF OvNamedByOmission(i) THEN 0 ELSE 1)
              + Cardinality(OvAdditionsWithId(ov_projects[i][id_key(ov_impl)]))

\* An omission by the address "1 m" removes the project at "1 m a" and keeps
\* the project without an address.
OmittedByAddressPrefix ==
    /\ ov_pc = "done"
    /\ Len(ov_projects) = 2
    /\ ov_projects[1]["addresses"] = <<OvUnit>>
    /\ ov_projects[2]["addresses"] = <<>>
    /\ DOMAIN ov_overrides = {"omit"}
    /\ ov_overrides["omit"] = <<[address |-> OvStreet]>>
    /\ ov_result = <<ov_projects[2]>>


\* The fields a revision may overwrite.
OvAllowlist ==
    IF ov_impl = "top_developments"
    THEN {"units", "use_type", "status", "zone", "zoning_code", "developer"}
    ELSE {"units", "lots", "plan_type", "status", "zone", "district", "project_name"}

\* The list of the indices before the k-th revision.
OvBefore(k) == IF k = 1 THEN ov_projects ELSE ov_stages.steps[k - 1]

\* C17: a revise entry changes at most one project; on it a field either
\* keeps its value or is an allowlisted field of the entry and takes the
\* entry's value; identifier, addresses and parcels keep their values.
RevisionFrame ==
    ov_pc = "done" =>
        LET revs == DictGet(ov_overrides, "revise", <<>>)
        IN  \A k \in 1..Len(revs) :
               LET prev == OvBefore(k)
                   cur == ov_stages.steps[k]
                   changed == {i \in 1..Len(prev) : cur[i] # prev[i]}
               IN  /\ Len(cur) = Len(prev)
                   /\ Cardinality(changed) <= 1
                   /\ \A i \in changed :
                         /\ DOMAIN prev[i] \subseteq DOMAIN cur[i]
                         /\ \A f \in {id_key(ov_impl), "addresses", "parcels"} :
                               cur[i][f] = prev[i][f]
                         /\ \A f \in DOMAIN cur[i] :
                               \/ f \in DOMAIN prev[i] /\ cur[i][f] = prev[i][f]
                               \/ /\ f \in OvAllowlist \cap DOMAIN revs[k]
                                  /\ cur[i][f] = revs[k][f]

\* A revision that names the second project and carries a status and a
\* project number changes the status of that project alone and leaves its
\* project number.
RevisionCopiesStatusOnly ==
    /\ ov_pc = "done"
    /\ Len(ov_projects) = 2 /\ Len(ov_result) = 2
    /\ DOMAIN ov_overrides = {"revise"}
    /\ ov_overrides["revise"] =
          <<OvMerge(OvWithId(ov_impl, 2), [status |-> "DENIED", project_number |-> "X"])>>
    /\ ov_result[1] = ov_projects[1]
    /\ ov_result[2]["status"] = "DENIED"
    /\ ov_projects[2]["status"] # "DENIED"
    /\ ov_result[2]["project_number"] = ""


\* The input projects that remain after the omissions and that the k-th
\* revise entry designates: those with its identifier; when there is none,
\* those with an address equal to its address in upper case; when there is
\* none either, those with an address that begins with it.
OvDesignated(k) ==
    LET rev == ov_overrides["revise"][k]
        remaining == Elems(ov_stages.kept_at)
        by_identifier ==
            {i \in remaining : /\ id_key(ov_impl) \in DOMAIN rev
                               /\ ov_projects[i][id_key(ov_impl)] = rev[id_key(ov_impl)]}
        exact ==
            {i \in remaining : /\ "address" \in DOMAIN rev
                               /\ Upper(rev["address"])
                                     \in Elems(upper_addresses(ov_projects[i]))}
        prefix ==
            {i \in remaining : /\ "address" \in DOMAIN rev
                               /\ \E a \in Elems(upper_addresses(ov_projects[i])) :
                                     StartsWith(a, Upper(rev["address"]))}
    IN  IF by_identifier # {} THEN by_identifier
        ELSE IF exact # {} THEN exact
        ELSE prefix

\* C18: the target of a revise entry is one of the remaining projects the
\* entry designates, and no remaining project when it designates none.
TargetAmongRemaining ==
    ov_pc = "done" =>
        \A k \in 1..Len(ov_stages.targets) :
            IF OvDesignated(k) = {}
            THEN ov_stages.targets[k] \notin Elems(ov_stages.kept_at)
            ELSE ov_stages.targets[k] \in OvDesignated(k)


\* The k-th revise entry has no identifier that an input project has and no
\* address that an address of an input project begins with.
OvUnmatched(k) ==
    LET rev == ov_overrides["revise"][k]
    IN  /\ \/ id_key(ov_impl) \notin DOMAIN rev
           \/ \A i \in 1..Len(ov_projects) :
                 ov_projects[i][id_key(ov_impl)] # rev[id_key(ov_impl)]
        /\ \/ "address" \notin DOMAIN rev
           \/ \A i \in 1..Len(ov_projects) :
                 \A a \in Elems(upper_addresses(ov_projects[i])) :
                    ~StartsWith(a, Upper(rev["address"]))

\* C19: omit entries without an identifier and an address remove no
\* project; a revise entry without them, or with ones that match no project,
\* changes no project; the call returns the list with the other entries
\* applied all the same.
UnmatchedEntriesAreNoOps ==
    ov_pc = "done" =>
        LET omits == DictGet(ov_overrides, "omit", <<>>)
            revs == DictGet(ov_overrides, "revise", <<>>)
            adds == DictGet(ov_overrides, "add", <<>>)
        IN  /\ (\A n \in 1..Len(omits) :
                   DOMAIN omits[n] \cap {id_key(ov_impl), "address"} = {})
               => ov_stages.kept_at = [i \in 1..Len(ov_projects) |-> i]
            /\ \A k \in 1..Len(revs) :
                  OvUnmatched(k) => ov_stages.steps[k] = OvBefore(k)
            /\ Len(ov_result) = Len(ov_stages.kept_at) + Len(adds)
            /\ \A x \in Elems(OvKept) \cup Elems(ov_stages.added) :
                  x \in Elems(ov_result)

\* An omit entry with a reason only and a revise entry with a unit count
\* only: the result is the input list.
KeylessEntriesChangeNothing ==
    /\ ov_pc = "done"
    /\ Len(ov_projects) = 2
    /\ DOMAIN ov_overrides = {"omit", "revise"}
    /\ ov_overrides["omit"] = <<[reason |-> "cancelled"]>>
    /\ ov_overrides["revise"] = <<[units |-> 9]>>
    /\ ov_result = ov_projects


\* The fields of a project of impl that hold a date.
OvDateFields ==
    {"qualifying_date", "initial_submit", "last_updated",
     "application_date", "complete_date"}

\* The fields that hold a count of units, lots, money or area, and the
\* reason of the zoning code.
OvOptionalFields == {"units", "lots", "valuation", "square_footage", "code_reason"}

\* The value of field f of the project appended for the add entry, the
\* field taking `otherwise` when it is read from the entry and the entry
\* does not have it.
OvAddedValue(add, f, otherwise) ==
    IF f = "addresses"
    THEN (IF "address" \in DOMAIN add THEN <<add["address"]>> ELSE <<>>)
    ELSE IF f = "parcels"
    THEN (IF "parcel" \in DOMAIN add THEN <<add["parcel"]>> ELSE <<>>)
    ELSE IF f \in OvDateFields THEN None
    ELSE IF f \in {"permit_count", "plan_count"} THEN 0
    ELSE IF f = "related_plans" THEN <<>>
    ELSE IF f \in DOMAIN add THEN add[f]
    ELSE IF f = "code_reason" THEN None
    ELSE IF f \in OvOptionalFields THEN NoCount
    ELSE otherwise

\* "?" as the value of field f
OvUnknown(f) == IF ov_impl = "top_developments" /\ f = "permit_id" THEN <<"?">> ELSE "?"

\* The default of a text field f of an added project.
OvTextDefault(f) ==
    IF f \in {"permit_id", "plan_id", "plan_number"}
    THEN (IF ov_impl = "top_developments" THEN OVERRIDE ELSE "OVERRIDE")
    ELSE IF f \in {"project_number", "project_name", "work_class", "description"}
    THEN ""
    ELSE "?"

\* The projects of the result that were not in the input list: one for
\* each add entry.
OvOneProjectPerAddition ==
    LET adds == DictGet(ov_overrides, "add", <<>>)
    IN  /\ Len(ov_result) = Len(ov_stages.kept_at) + Len(adds)
        /\ Len(ov_stages.added) = Len(adds)
        /\ \A n \in 1..Len(adds) :
              /\ ov_stages.added[n] \in Elems(ov_result)
              /\ DOMAIN ov_stages.added[n] =
                    DOMAIN OvProjectAt(ov_impl, 1, <<>>)

\* C20 as stated: each add entry appends one project, and a field the entry
\* lacks is "?" when it is a text, an empty list for addresses and parcels,
\* None for counts and dates, with a related-record count of zero.
AbsentFieldsAreUnknown ==
    ov_pc = "done" =>
        /\ OvOneProjectPerAddition
        /\ \A n \in 1..Len(ov_stages.added) :
              \A f \in DOMAIN ov_stages.added[n] :
                 ov_stages.added[n][f]
                    = OvAddedValue(ov_overrides["add"][n], f, OvUnknown(f))

\* C20, amended: each add entry appends one project; a field the entry lacks
\* is "OVERRIDE" for the identifier, "" for the project number, the project
\* name, the work class and the description, "?" for the other texts, an
\* empty list for addresses and parcels, None for counts; the dates are
\* None and the related-record count is zero whatever the entry holds.
AbsentFieldsTakeDefaults ==
    ov_pc = "done" =>
        /\ OvOneProjectPerAddition
        /\ \A n \in 1..Len(ov_stages.added) :
              \A f \in DOMAIN ov_stages.added[n] :
                 ov_stages.added[n][f]
                    = OvAddedValue(ov_overrides["add"][n], f, OvTextDefault(f))

\* An add entry without a key: the project in the result has the identifier
\* "OVERRIDE", an empty project number, the status "?", no unit count, no
\* address and a related-record count of zero.
EmptyAdditionAppended ==
    /\ ov_pc = "done"
    /\ DOMAIN ov_overrides = {"add"}
    /\ ov_overrides["add"] = << <<>> >>
    /\ Len(ov_result) = Len(ov_projects) + 1
    /\ LET x == ov_result[Len(ov_result)]
       IN  /\ x[id_key(ov_impl)] = OvTextDefault(id_key(ov_impl))
           /\ x["project_number"] = ""
           /\ x["status"] = "?"
           /\ x["units"] = NoCount
           /\ x["addresses"] = <<>>
           /\ DOMAIN x \cap {"permit_count", "plan_count"} # {}
           /\ \A f \in DOMAIN x \cap {"permit_count", "plan_count"} : x[f] = 0

-----------------------------------------------------------------------------
(* Specification of the final sort of apply_overrides: project lists with
   equal and missing unit counts and dates, as find_developments and
   find_projects sort them, and overrides that revise and add unit counts. *)

MaxResortProjects == 2
MaxResortEntries == 2

ResortUnits == {NoCount, 5}
\* No application date, January 5, 2024 and December 31, 9999, the latest
\* date a line "12/31/9999" of the file gives.
ResortDates == {NoDate, 20240105, 99991231}

\* The i-th project with its unit count and its date of application.
ResortProjectAt(impl, i, units, app) ==
    LET p == OvProjectAt(impl, i, <<>>)
    IN  [f \in DOMAIN p |->
            IF f = "units" THEN units
            ELSE IF f \in {"application_date", "initial_submit"} THEN isoformat(app)
            ELSE p[f]]

ResortRevisions(impl) ==
    {OvMerge(OvWithId(impl, i), [units |-> u]) : i \in 1..2, u \in {0, 5}}

ResortAdditions == {<<>>, [units |-> 5]}

InitResort ==
    /\ InitLater /\ InitStore /\ InitNorm /\ InitGraph /\ InitTrav /\ InitAlb /\ InitDev
    /\ InitZone
    /\ \E impl \in OvImpls :
          /\ ov_impl = impl
          /\ \E n \in 0..MaxResortProjects :
                \E units \in [1..n -> ResortUnits], dates \in [1..n -> ResortDates] :
                   LET unsorted == [i \in 1..n |->
                                      ResortProjectAt(impl, i, units[i], dates[i])]
                   IN  ov_projects =
                          Sorted(unsorted,
                                 [i \in 1..n |-> overrides_sort_key(impl, unsorted[i])])
          /\ \E nr \in 0..MaxResortEntries :
                \E na \in 0..(MaxResortEntries - nr) :
                   \E revisions \in [1..nr -> ResortRevisions(impl)],
                      additions \in [1..na -> ResortAdditions] :
                      ov_overrides = OvDict(<<>>, revisions, additions)
    /\ ov_input = ov_projects
    /\ ov_stages = <<>>
    /\ ov_result = <<>>
    /\ ov_pc = "idle"

NextResort == ApplyOverrides

SpecResort == InitResort /\ [][NextResort]_vars

\* The application date of a project, None when it has none.
OvApplicationDate(p) ==
    IF "application_date" \in DOMAIN p THEN p["application_date"] ELSE None

\* C21: in the returned list a project has at least the unit count of the
\* next one, a missing count being 0; of two neighbours with the same count
\* the first has the earlier or the same application date, and a project
\* without an application date comes after those with one.
ResultSortedByUnitsThenDate ==
    ov_pc = "done" =>
        \A k \in 1..(Len(ov_result) - 1) :
            LET a == ov_result[k]
                b == ov_result[k + 1]
            IN  /\ OrZero(a["units"]) >= OrZero(b["units"])
                /\ OrZero(a["units"]) = OrZero(b["units"]) =>
                      \/ ~Truthy(OvApplicationDate(b))
                      \/ /\ Truthy(OvApplicationDate(a))
                         /\ ~TupleLess(Codes(OvApplicationDate(b)),
                                       Codes(OvApplicationDate(a)))


\* C28: after the call the list that was passed in has the elements and the
\* field values it had at the call.
InputUnchanged ==
    ov_pc = "done" => ov_input = ov_projects

-----------------------------------------------------------------------------
(* Specification of find_projects over plans that differ in work class,
   status and application date as well as in type. *)

MaxCorePlans == 2

CorePrimaryTypes == {"Site Development Plan", "Subdivision", "Boundary Line Adjustment"}
CorePrimaryWorkClasses == {"Initial", "Amendment"}
CorePrimaryStatuses == {"Approved", "In Review"}
CorePrimaryDates == {NoDate, 20240105}

CorePrimaryLoad ==
    /\ alb_pc = "idle"
    /\ Len(plans) < MaxCorePlans
    /\ \E type \in CorePrimaryTypes, wc \in CorePrimaryWorkClasses,
          status \in CorePrimaryStatuses, app \in CorePrimaryDates,
          project \in ProjectNumbers :
          LoadPlan(AlbemarlePlan(PlanIdAt(Len(plans) + 1), PlanNumberAt(Len(plans) + 1),
                                 type, wc, status, app, project, "07600", <<>>, ""),
                   MaxCorePlans)
    /\ UNCHANGED <<treeVars, fetchVars, detVars, zoneVars, ovVars, storeVars, normVars, graphVars, travVars, devVars>>

NextCorePrimary == CorePrimaryLoad \/ FindProjects

SpecCorePrimary == InitProjects /\ [][NextCorePrimary]_vars

\* C29: the plan type of every project find_projects returns is a core type.
PrimaryIsCoreType ==
    alb_pc = "done" =>
        \A i \in 1..Len(projects) : projects[i].plan_type \in CORE_PLAN_TYPES

\* A group by project number of a plan that is not a core type, with the
\* better work class, status and application date, and a core-type plan:
\* the project is that of the core-type plan.
CorePrimaryOverBetterNonCore ==
    /\ alb_pc = "done"
    /\ Len(plans) = 2
    /\ plans[1] = AlbemarlePlan("P1", "N1", "Boundary Line Adjustment", "Initial",
                                "Approved", 20240105, "PR-1", "07600", <<>>, "")
    /\ plans[2] = AlbemarlePlan("P2", "N2", "Subdivision", "Amendment",
                                "In Review", NoDate, "PR-1", "07600", <<>>, "")
    /\ Len(projects) = 1
    /\ projects[1].plan_id = "P2"
    /\ projects[1].plan_count = 2

-----------------------------------------------------------------------------
(* Specification of find_projects over plans of one project number that
   have addresses. *)

MaxAddressPlans == 2

AddressPlanTypes == {"Site Development Plan", "Subdivision"}
\* "", "1 M", " 1 M" and "2 M"
AddressPlanAddresses ==
    {<<>>, <<"1", " ", "M">>, <<" ", "1", " ", "M">>, <<"2", " ", "M">>}

AddressLoad ==
    /\ alb_pc = "idle"
    /\ Len(plans) < MaxAddressPlans
    /\ \E type \in AddressPlanTypes, wc \in CorePrimaryWorkClasses,
          addr \in AddressPlanAddresses :
          LoadPlan(AlbemarlePlan(PlanIdAt(Len(plans) + 1), PlanNumberAt(Len(plans) + 1),
                                 type, wc, "Approved", NoDate, "PR-1", "07600", addr, ""),
                   MaxAddressPlans)
    /\ UNCHANGED <<treeVars, fetchVars, detVars, zoneVars, ovVars, storeVars, normVars, graphVars, travVars, devVars>>

NextAddresses == AddressLoad \/ FindProjects

SpecAddresses == InitProjects /\ [][NextAddresses]_vars

\* The plan of the store a project has as its primary.
PrimaryOf(project) ==
    plans[CHOOSE i \in 1..Len(plans) : plans[i].plan_id = project.plan_id]

\* C24: the address list of a project holds no address twice, and the
\* address of the primary, when it has one, is its first element.
PrimaryAddressFirst ==
    alb_pc = "done" =>
        \A n \in 1..Len(projects) :
            LET addrs == projects[n].addresses
                own == Strip(PrimaryOf(projects[n]).address_concatenated)
            IN  /\ \A i, j \in 1..Len(addrs) : i # j => addrs[i] # addrs[j]
                /\ own # <<>> => addrs[1] = own

-----------------------------------------------------------------------------
(* The tree builder: build_site.build_permit_tree_json.

   analyze_project.build_permit_tree is the same walk (print_subtree with the
   same two visited checks and the same sort key); it writes one line per
   node, indented by depth, where build_permit_tree_json nests dicts.  The
   tree is kept here as its nodes in preorder, each with its depth, which is
   the nesting of the dicts and the indentation of the lines.

   A permit of this part has the fields the tree builder reads: the links,
   date_created from search_result, and tasks. *)

TreePermit(pid, parents, children, created, tasks) ==
    [permit_id |-> pid, parent_cases |-> parents, child_cases |-> children,
     date_created |-> created, tasks |-> tasks]

\* get_intake_date: date_completed of the first "Intake Application" task,
\* "" standing for None (both are falsy where the value is read).
get_intake_date(permit) ==
    LET intake == SelectSeq(permit.tasks,
                            LAMBDA task : task.description = "Intake Application")
    IN  IF intake # <<>> THEN intake[1].date_completed ELSE ""

\* datetime.min
DatetimeMin == MakeDate(1, 1, 1)

\* The key with the date the node shows in place of the date created.
get_permit_sort_key_display_date(permit) ==
    LET intake == get_intake_date(permit)
        dt == parse_date(IF intake # "" THEN intake ELSE permit.date_created)
    IN  <<IF dt # NoDate THEN dt ELSE DatetimeMin>> \o Codes(permit.permit_id)

\* get_permit_sort_key: (date created or datetime.min, permit_id)
get_permit_sort_key(permit) ==
    LET dt == parse_date(permit.date_created)
    IN  <<IF dt # NoDate THEN dt ELSE DatetimeMin>> \o Codes(permit.permit_id)

\* The ids of S in the order of the store.
InStoreOrder(S, store) ==
    SelectSeq([i \in 1..Len(store) |-> store[i].permit_id], LAMBDA pid : pid \in S)

\* ids.sort(key=get_permit_sort_key), on the ids of permits of the store
SortPermits(ids, store) ==
    Sorted(ids, [i \in 1..Len(ids) |-> get_permit_sort_key(Get(store, ids[i]))])

\* related_permits: the related ids that are keys of the store, sorted.
related_permits(pid, store) ==
    SortPermits(InStoreOrder(find_related_permits(<<pid>>, store) \cap Keys(store), store),
                store)

\* roots: the related permits with no parent in the related set, sorted.
find_roots(related, store, pmap) ==
    SortPermits(SelectSeq(related,
                          LAMBDA pid : MapGet(pmap, pid) \cap Elems(related) = {}),
                store)

\* permit_to_dict, with the depth at which the node is nested.
permit_to_dict(p, depth) ==
    LET intake == get_intake_date(p)
        date_str == IF intake # "" THEN intake ELSE p.date_created
    IN  [permit_id |-> p.permit_id, date |-> isoformat(parse_date(date_str)),
         depth |-> depth]

\* The children list of build_subtree once sorted: the children of pid in the
\* related set that are not visited when the list is built.
subtree_children(pid, related_ids, vis, store, cmap) ==
    SortPermits(InStoreOrder((MapGet(cmap, pid) \cap related_ids) \ vis, store), store)

\* build_subtree up to its loop over children, without the check that p is
\* not visited yet.
enter_subtree_unguarded(pid, st, vis, nodes, related_ids, store, cmap) ==
    [stack |-> Append(st, [permit_id |-> pid,
                           children |-> subtree_children(pid, related_ids,
                                                         vis \cup {pid}, store, cmap),
                           next |-> 1]),
     visited |-> vis \cup {pid},
     nodes |-> Append(nodes, permit_to_dict(Get(store, pid), Len(st)))]

\* build_subtree(p, visited) up to its loop over children: nothing for a
\* visited permit; else p is visited, its node is made and its children are
\* listed.
enter_subtree(pid, st, vis, nodes, related_ids, store, cmap) ==
    IF pid \in vis
    THEN [stack |-> st, visited |-> vis, nodes |-> nodes]
    ELSE [stack |-> Append(st, [permit_id |-> pid,
                                children |-> subtree_children(pid, related_ids,
                                                              vis \cup {pid}, store, cmap),
                                next |-> 1]),
          visited |-> vis \cup {pid},
          nodes |-> Append(nodes, permit_to_dict(Get(store, pid), Len(st)))]

\* build_permit_tree_json(project, ...) up to the loop over roots.
BuildPermitTreeJson(pid) ==
    /\ tree_pc = "idle"
    /\ loaded
    /\ graph_fn = "build_site"
    /\ LET related == related_permits(pid, permits)
       IN  tree' = [tree EXCEPT !.project = pid,
                                !.related = Elems(related),
                                !.roots = find_roots(related, permits, parents_map),
                                !.pc = IF related = <<>> THEN "done" ELSE "walk"]
    /\ UNCHANGED <<fetchVars, detVars, zoneVars, ovVars, storeVars, normVars, graphVars,
                   travVars, albVars, devVars>>

\* One iteration of the loop over roots: the call build_subtree(root, visited).
TreeRoot ==
    /\ tree_pc = "walk"
    /\ tree_stack = <<>>
    /\ tree_roots # <<>>
    /\ LET out == enter_subtree(Head(tree_roots), tree_stack, tree_visited, tree_nodes,
                                tree_related, permits, children_map)
       IN  tree' = [tree EXCEPT !.stack = out.stack,
                                !.visited = out.visited,
                                !.nodes = out.nodes,
                                !.roots = Tail(tree_roots)]
    /\ UNCHANGED <<fetchVars, detVars, zoneVars, ovVars, storeVars, normVars, graphVars,
                   travVars, albVars, devVars>>

\* One iteration of the loop over children in the innermost build_subtree:
\* the call build_subtree(child, visited).
TreeChild ==
    /\ tree_pc = "walk"
    /\ tree_stack # <<>>
    /\ LET top == tree_stack[Len(tree_stack)]
       IN  /\ top.next <= Len(top.children)
           /\ LET advanced == [tree_stack EXCEPT ![Len(tree_stack)].next = top.next + 1]
                  out == enter_subtree(top.children[top.next], advanced, tree_visited,
                                       tree_nodes, tree_related, permits, children_map)
              IN  tree' = [tree EXCEPT !.stack = out.stack,
                                       !.visited = out.visited,
                                       !.nodes = out.nodes]
    /\ UNCHANGED <<fetchVars, detVars, zoneVars, ovVars, storeVars, normVars, graphVars,
                   travVars, albVars, devVars>>

\* The innermost build_subtree has gone through its children: return node.
TreeReturn ==
    /\ tree_pc = "walk"
    /\ tree_stack # <<>>
    /\ tree_stack[Len(tree_stack)].next > Len(tree_stack[Len(tree_stack)].children)
    /\ tree' = [tree EXCEPT !.stack = SubSeq(tree_stack, 1, Len(tree_stack) - 1)]
    /\ UNCHANGED <<fetchVars, detVars, zoneVars, ovVars, storeVars, normVars, graphVars,
                   travVars, albVars, devVars>>

\* The loop over roots is over: return tree.
TreeDone ==
    /\ tree_pc = "walk"
    /\ tree_stack = <<>>
    /\ tree_roots = <<>>
    /\ tree' = [tree EXCEPT !.pc = "done"]
    /\ UNCHANGED <<fetchVars, detVars, zoneVars, ovVars, storeVars, normVars, graphVars,
                   travVars, albVars, devVars>>

-----------------------------------------------------------------------------
(* SpecTree: build_permit_tree_json on a loaded store whose relationship
   graph build_relationship_graph has built, as build_site.main calls it. *)

MaxTreeLinks == 3

LinkedIds == {DevIdAt(1), DevIdAt(2), DevIdAt(3)}

\* The declarations of a store: pairs of the permit that declares the link and
\* the permit it names, which may be itself.
TreeLinkSets == {links \in SUBSET (LinkedIds \X LinkedIds) : Cardinality(links) <= MaxTreeLinks}

\* The permits that pid names in links, in the order of their ids.
NamedBy(pid, links) ==
    SelectSeq(<<DevIdAt(1), DevIdAt(2), DevIdAt(3)>>, LAMBDA other : <<pid, other>> \in links)

\* (date_created, date_completed of the intake task or "" for no such task)
TreeDates == {<<"", "03/01/2024">>, <<"12/01/2023", "">>}

\* The store: three permits, the links declared as child cases.
TreeStore(links, dates) ==
    [i \in 1..3 |->
        TreePermit(DevIdAt(i), <<>>, NamedBy(DevIdAt(i), links), dates[i][1],
                   IF dates[i][2] = "" THEN <<>>
                   ELSE <<Task("Intake Application", "", dates[i][2])>>)]

InitTreeSpec ==
    /\ InitTree /\ InitFetch /\ InitDet
    /\ InitNorm /\ InitTrav /\ InitAlb /\ InitDev /\ InitZone /\ InitOv
    /\ \E links \in TreeLinkSets, dates \in [1..3 -> TreeDates] :
          permits = TreeStore(links, dates)
    /\ loaded = TRUE
    /\ graph_fn = "build_site"
    /\ children_map = build_relationship_graph(permits).children_map
    /\ parents_map = build_relationship_graph(permits).parents_map

\* project["permit_id"]: the id of a permit of the store, or the id of a
\* project that an override added.
TreeProjects == Keys(permits) \cup {OVERRIDE}

NextTree ==
    \/ \E pid \in TreeProjects : BuildPermitTreeJson(pid)
    \/ TreeRoot
    \/ TreeChild
    \/ TreeReturn
    \/ TreeDone

SpecTree == InitTreeSpec /\ [][NextTree]_vars

(* FairSpecTree: the same calls with the links declared as parent cases and
   one date for every permit; the dates play no part in whether the walk
   ends. *)

LinkedStore(links) ==
    [i \in 1..3 |->
        TreePermit(DevIdAt(i), NamedBy(DevIdAt(i), links), <<>>, "12/01/2023", <<>>)]

InitTreeLinks ==
    /\ InitTree /\ InitFetch /\ InitDet
    /\ InitNorm /\ InitTrav /\ InitAlb /\ InitDev /\ InitZone /\ InitOv
    /\ \E links \in TreeLinkSets : permits = LinkedStore(links)
    /\ loaded = TRUE
    /\ graph_fn = "build_site"
    /\ children_map = build_relationship_graph(permits).children_map
    /\ parents_map = build_relationship_graph(permits).parents_map

\* A step of the walk: at most one of the four is enabled in a state.
TreeStep == TreeRoot \/ TreeChild \/ TreeReturn \/ TreeDone

\* The interpreter runs the loop it is in and returns from a call whose loop
\* is over.
FairSpecTree == InitTreeLinks /\ [][NextTree]_vars /\ WF_vars(TreeStep)

\* The permit ids of the nodes of the tree, in preorder.
TreeIds == [i \in 1..Len(tree_nodes) |-> tree_nodes[i].permit_id]

\* No permit is at two positions of the tree.
NoRepeats == \A i, j \in 1..Len(tree_nodes) : TreeIds[i] = TreeIds[j] => i = j

\* C22: whatever the links are, a call that has entered the loop over roots
\* returns, and no permit is at two positions of the tree it returns.
TreeTerminatesWithoutRepeats ==
    (tree_pc = "walk") ~> (tree_pc = "done" /\ NoRepeats)

\* C22 witness: the call returned a tree with a node whose permit is its own
\* parent, or the parent of its parent, and a node whose permit has two parents.
TreeOfCycleDone ==
    /\ tree_pc = "done"
    /\ \E i \in 1..Len(tree_nodes) :
          \E pid \in MapGet(children_map, TreeIds[i]) :
             TreeIds[i] \in MapGet(children_map, pid)
    /\ \E i \in 1..Len(tree_nodes) : Cardinality(MapGet(parents_map, TreeIds[i])) = 2


\* C30: the tree that is returned holds every permit of the related set, once.
TreeHoldsEveryRelatedPermit ==
    tree_pc = "done" =>
        /\ Elems(TreeIds) = tree_related
        /\ Len(tree_nodes) = Cardinality(tree_related)


\* The position of the node under which node i is nested, 0 for a root.
TreeParent(i) ==
    IF tree_nodes[i].depth = 0 THEN 0
    ELSE CHOOSE j \in 1..(i - 1) :
            /\ tree_nodes[j].depth = tree_nodes[i].depth - 1
            /\ \A k \in (j + 1)..(i - 1) : tree_nodes[k].depth >= tree_nodes[i].depth

\* C23 as written: two nodes of one children list, or of the root list, that
\* both show a date are in the order of the dates they show, and of their ids
\* when the dates are equal.
SiblingsInDisplayDateOrder ==
    tree_pc = "done" =>
        \A i, j \in 1..Len(tree_nodes) :
            (/\ i < j
             /\ TreeParent(i) = TreeParent(j)
             /\ tree_nodes[i].date # None
             /\ tree_nodes[j].date # None)
            => /\ ~StrLess(tree_nodes[j].date, tree_nodes[i].date)
               /\ tree_nodes[i].date = tree_nodes[j].date
                    => StrLess(tree_nodes[i].permit_id, tree_nodes[j].permit_id)


\* The date created of the permit of node i, the least date when it is missing.
CreatedOf(i) ==
    LET created == parse_date(Get(permits, TreeIds[i]).date_created)
    IN  IF created = NoDate THEN MakeDate(1, 1, 1) ELSE created

\* C23: two nodes of one children list, or of the root list, are in the order
\* of the dates their permits were created, a missing date first, and of their
\* ids when these dates are equal.
SiblingsInCreationOrder ==
    tree_pc = "done" =>
        \A i, j \in 1..Len(tree_nodes) :
            (i < j /\ TreeParent(i) = TreeParent(j))
            => /\ CreatedOf(i) <= CreatedOf(j)
               /\ CreatedOf(i) = CreatedOf(j) => StrLess(TreeIds[i], TreeIds[j])

\* C23 witness: a tree was returned in which a node shows a later date than
\* the sibling that follows it.
SiblingShowsLaterDate ==
    /\ tree_pc = "done"
    /\ \E i, j \in 1..Len(tree_nodes) :
          /\ i < j
          /\ TreeParent(i) = TreeParent(j)
          /\ tree_nodes[i].date # None
          /\ tree_nodes[j].date # None
          /\ StrLess(tree_nodes[j].date, tree_nodes[i].date)


-----------------------------------------------------------------------------
(* SpecEndToEnd: three records P, C1 and C2, each both a plan of the Albemarle
   store and a permit of the Charlottesville store.  The plans are of core
   types, have no project number and share the parcel "001"; among the
   permits C1 and C2 are children of P, each link declared by the parent, by
   the child or by both.  find_projects runs on the plans, and
   build_permit_tree_json on the permit of the primary of a project. *)

EndToEndTypes == {"Site Development Plan", "Subdivision"}
EndToEndCreated == {"11/01/2023", "12/01/2023"}
\* Who declares a link.
EndToEndSides == {"parent", "child", "both"}

EndToEndPlans(types, created) ==
    [i \in 1..3 |->
        AlbemarlePlan(PlanIdAt(i), PlanNumberAt(i), types[i], "Initial", "Approved",
                      parse_date(created[i]), "", "001", <<>>, "")]

\* P is permit 1, C1 permit 2 and C2 permit 3; sides[i] is for the link to
\* permit i.
EndToEndPermits(created, sides) ==
    [i \in 1..3 |->
        TreePermit(DevIdAt(i),
                   IF i # 1 /\ sides[i] \in {"child", "both"} THEN <<DevIdAt(1)>> ELSE <<>>,
                   IF i = 1
                   THEN SelectSeq(<<DevIdAt(2), DevIdAt(3)>>,
                                  LAMBDA pid : sides[IF pid = DevIdAt(2) THEN 2 ELSE 3]
                                                  \in {"parent", "both"})
                   ELSE <<>>,
                   created[i], <<>>)]

InitEndToEnd ==
    /\ InitTree /\ InitFetch /\ InitDet
    /\ InitNorm /\ InitTrav /\ InitDev /\ InitZone /\ InitOv
    /\ \E types \in [1..3 -> EndToEndTypes], created \in [1..3 -> EndToEndCreated],
          sides \in [2..3 -> EndToEndSides] :
          /\ plans = EndToEndPlans(types, created)
          /\ permits = EndToEndPermits(created, sides)
    /\ loaded = TRUE
    /\ graph_fn = "build_site"
    /\ children_map = build_relationship_graph(permits).children_map
    /\ parents_map = build_relationship_graph(permits).parents_map
    /\ sel_group = <<>>
    /\ sel_primary = <<>>
    /\ projects = <<>>
    /\ groups = <<>>
    /\ alb_pc = "idle"

\* The permit that is the same record as the plan with this plan_id.
PermitOfPlan(plan_id) ==
    DevIdAt(CHOOSE i \in 1..Len(plans) : plans[i].plan_id = plan_id)

\* The tree of a project that find_projects returned.
EndToEndTree ==
    /\ alb_pc = "done"
    /\ \E n \in 1..Len(projects) : BuildPermitTreeJson(PermitOfPlan(projects[n].plan_id))

NextEndToEnd ==
    \/ FindProjects
    \/ EndToEndTree
    \/ TreeRoot
    \/ TreeChild
    \/ TreeReturn
    \/ TreeDone

SpecEndToEnd == InitEndToEnd /\ [][NextEndToEnd]_vars

\* find_projects returned one project, of the three plans, whose primary has
\* the least sort key of the three.
OneProjectOfThree ==
    /\ Len(projects) = 1
    /\ projects[1].plan_count = 3
    /\ \A i \in 1..3 : ~TupleLess(sort_key(plans[i]), sort_key(PrimaryOf(projects[1])))

\* The tree is the root P with the children C1 and C2, the one created first
\* before the other.
RootWithTwoChildren ==
    /\ Len(tree_nodes) = 3
    /\ TreeIds[1] = DevIdAt(1)
    /\ {TreeIds[2], TreeIds[3]} = {DevIdAt(2), DevIdAt(3)}
    /\ tree_nodes[1].depth = 0
    /\ tree_nodes[2].depth = 1
    /\ tree_nodes[3].depth = 1
    /\ CreatedOf(2) <= CreatedOf(3)

\* C25: the second pass makes one project of P, C1 and C2 with the primary
\* that the sort key selects, and the tree of the project is P with the
\* children C1 and C2 in the order of their dates.
EndToEndScenario ==
    /\ alb_pc = "done" => OneProjectOfThree
    /\ tree_pc = "done" => RootWithTwoChildren


-----------------------------------------------------------------------------
(* The fetching collaborator: fetch_permits.main gathers one
   fetch_permit_with_semaphore task per search result that is not in the
   output file yet.  A task is "waiting" for the semaphore, "fetching" inside
   `async with semaphore` (fetch_permit and its retries), "returned",
   "raised", or "cancelled" when main has left the loop on an exception. *)

\* stop_after_attempt(3)
StopAfterAttempt == 3

FetchTask(pc, attempt) == [pc |-> pc, attempt |-> attempt]

\* The tasks inside `async with semaphore`.
InProgress == {t \in DOMAIN fetch_tasks : fetch_tasks[t].pc = "fetching"}

\* main up to the loop over as_completed(tasks), for n records to fetch and
\* --concurrency c.
FetchMain(n, c) ==
    /\ fetch_main = "idle"
    /\ fetch' = [fetch EXCEPT !.limit = c,
                              !.sem = c,
                              !.tasks = [t \in 1..n |-> FetchTask("waiting", 0)],
                              !.main = IF n = 0 THEN "done" ELSE "gathering"]
    /\ UNCHANGED <<treeVars, detVars, zoneVars, ovVars, storeVars, normVars, graphVars,
                   travVars, albVars, devVars>>

\* `async with semaphore` is entered: the value is positive and goes down by one.
FetchAcquire(t) ==
    /\ fetch_main = "gathering"
    /\ fetch_tasks[t].pc = "waiting"
    /\ fetch_sem > 0
    /\ fetch' = [fetch EXCEPT !.sem = fetch_sem - 1,
                              !.tasks[t] = FetchTask("fetching", 1)]
    /\ UNCHANGED <<treeVars, detVars, zoneVars, ovVars, storeVars, normVars, graphVars,
                   travVars, albVars, devVars>>

\* An attempt of fetch_permit ends with a transient error and another attempt
\* is left: the retry runs inside the same `async with`.
FetchRetry(t) ==
    /\ fetch_main = "gathering"
    /\ fetch_tasks[t].pc = "fetching"
    /\ fetch_tasks[t].attempt < StopAfterAttempt
    /\ fetch' = [fetch EXCEPT !.tasks[t].attempt = fetch_tasks[t].attempt + 1]
    /\ UNCHANGED <<treeVars, detVars, zoneVars, ovVars, storeVars, normVars, graphVars,
                   travVars, albVars, devVars>>

\* fetch_permit returns the permit: the semaphore is released.
FetchReturn(t) ==
    /\ fetch_main = "gathering"
    /\ fetch_tasks[t].pc = "fetching"
    /\ fetch' = [fetch EXCEPT !.sem = fetch_sem + 1,
                              !.tasks[t].pc = "returned",
                              !.completed = Append(fetch_completed, t)]
    /\ UNCHANGED <<treeVars, detVars, zoneVars, ovVars, storeVars, normVars, graphVars,
                   travVars, albVars, devVars>>

\* fetch_permit raises, on an error that is not transient or on the last
\* attempt: the semaphore is released.
FetchRaise(t) ==
    /\ fetch_main = "gathering"
    /\ fetch_tasks[t].pc = "fetching"
    /\ fetch' = [fetch EXCEPT !.sem = fetch_sem + 1,
                              !.tasks[t].pc = "raised",
                              !.completed = Append(fetch_completed, t)]
    /\ UNCHANGED <<treeVars, detVars, zoneVars, ovVars, storeVars, normVars, graphVars,
                   travVars, albVars, devVars>>

\* `permit = await coro` on a task that returned: the permit is written, and
\* main is done after the last one.
MainWrite ==
    /\ fetch_main = "gathering"
    /\ fetch_completed # <<>>
    /\ fetch_tasks[Head(fetch_completed)].pc = "returned"
    /\ fetch' = [fetch EXCEPT !.written = Append(fetch_written, Head(fetch_completed)),
                              !.completed = Tail(fetch_completed),
                              !.main = IF Len(fetch_written) + 1 = Len(fetch_tasks)
                                       THEN "done" ELSE "gathering"]
    /\ UNCHANGED <<treeVars, detVars, zoneVars, ovVars, storeVars, normVars, graphVars,
                   travVars, albVars, devVars>>

\* `permit = await coro` on a task that raised: main raises, and asyncio.run
\* cancels the tasks that are left, which release what they hold.
MainFail ==
    /\ fetch_main = "gathering"
    /\ fetch_completed # <<>>
    /\ fetch_tasks[Head(fetch_completed)].pc = "raised"
    /\ fetch' = [fetch EXCEPT
                    !.main = "failed",
                    !.tasks = [t \in DOMAIN fetch_tasks |->
                                 IF fetch_tasks[t].pc \in {"waiting", "fetching"}
                                 THEN FetchTask("cancelled", fetch_tasks[t].attempt)
                                 ELSE fetch_tasks[t]],
                    !.sem = fetch_sem + Cardinality(InProgress),
                    !.completed = Tail(fetch_completed)]
    /\ UNCHANGED <<treeVars, detVars, zoneVars, ovVars, storeVars, normVars, graphVars,
                   travVars, albVars, devVars>>

-----------------------------------------------------------------------------
(* SpecFetch: main with up to MaxFetch records to fetch and a concurrency
   that argparse accepts and asyncio.Semaphore takes. *)

MaxFetch == 3
MaxConcurrency == 2

InitFetchSpec ==
    /\ InitTree /\ InitFetch /\ InitDet
    /\ InitStore /\ InitNorm /\ InitGraph /\ InitTrav /\ InitAlb /\ InitDev /\ InitZone
    /\ InitOv

\* What the event loop does by itself once main has made the tasks.
FetchStep ==
    \/ \E t \in DOMAIN fetch_tasks :
          FetchAcquire(t) \/ FetchRetry(t) \/ FetchReturn(t) \/ FetchRaise(t)
    \/ MainWrite
    \/ MainFail

NextFetch ==
    \/ \E n \in 0..MaxFetch, c \in 0..MaxConcurrency : FetchMain(n, c)
    \/ \E t \in DOMAIN fetch_tasks : FetchAcquire(t)
    \/ \E t \in DOMAIN fetch_tasks : FetchRetry(t)
    \/ \E t \in DOMAIN fetch_tasks : FetchReturn(t)
    \/ \E t \in DOMAIN fetch_tasks : FetchRaise(t)
    \/ MainWrite
    \/ MainFail

SpecFetch == InitFetchSpec /\ [][NextFetch]_vars

\* The event loop runs a task that can run, and every request ends, by the
\* timeout of the client at the latest.
FairSpecFetch == SpecFetch /\ WF_vars(FetchStep)

\* C26: no more tasks than the concurrency are inside `async with semaphore`,
\* and once the tasks are made main ends, with every permit written or with
\* an exception.
FetchesBoundedAndRunEnds ==
    /\ [](Cardinality(InProgress) <= fetch_limit)
    /\ (fetch_main = "gathering")
         ~> (\/ fetch_main = "failed"
             \/ fetch_main = "done" /\ Len(fetch_written) = Len(fetch_tasks))


-----------------------------------------------------------------------------
(* find_developments, the zone and the zoning code of one project.

   related_ids is the set find_related_permits returns and parcels is a set
   built in the loop over related; the body iterates over both.  The order in
   which a set of str is iterated depends on the hash seed of the process, so
   it is a choice here: related is det_related in any order, and the parcels
   come in any order.  A permit of this part is a DatedPermit with the
   parcel_number of its search_result. *)

ZonedPermit(pid, parcel, intake) ==
    [permit_id |-> pid, permit_type |-> "Site Plan", sub_type |-> "",
     permit_number |-> "", tasks |-> <<Task("Intake Application", "", intake)>>,
     payments |-> <<>>, date_created |-> "", parcel_number |-> parcel]

\* parcels: the parcel numbers of related that are not empty.
project_parcels(related) ==
    {related[i].parcel_number : i \in 1..Len(related)} \ {""}

\* The loop `for parcel in parcels`, for the order in which the set comes.
RECURSIVE project_zone(_, _)
project_zone(parcel_order, parcel_zones) ==
    IF parcel_order = <<>> THEN "?"
    ELSE IF Head(parcel_order) \in DOMAIN parcel_zones
         THEN parcel_zones[Head(parcel_order)]
         ELSE project_zone(Tail(parcel_order), parcel_zones)

\* The zone and the zoning code of the dict that find_developments appends.
project_zoning(related, parcel_order, parcel_zones) ==
    LET zoning == get_zoning_code(related)
    IN  [zone |-> project_zone(parcel_order, parcel_zones),
         zoning_code |-> zoning.code,
         code_reason |-> zoning.reason,
         qualifying_date |-> zoning.qualifying_date,
         parcels |-> project_parcels(related),
         permit_count |-> Len(related)]

\* One run of the body of the loop of find_developments for a permit whose
\* related set is det_related.
FindDevelopmentsBody ==
    /\ Len(det_runs) < 2
    /\ \E related_order \in Orders(1..Len(det_related)) :
          LET related == [i \in 1..Len(det_related) |-> det_related[related_order[i]]]
          IN  \E parcel_order \in Orders(project_parcels(related)) :
                 det' = [det EXCEPT !.runs = Append(det_runs,
                                                    project_zoning(related, parcel_order,
                                                                   det_zones))]
    /\ UNCHANGED <<treeVars, fetchVars, zoneVars, ovVars, storeVars, normVars, graphVars,
                   travVars, albVars, devVars>>

-----------------------------------------------------------------------------
(* SpecDeterminism: the body of find_developments run twice on one related
   set and one parcel_zones. *)

MaxDetPermits == 2

DetParcels == {"", "A", "B"}
DetIntake == {"12/01/2023", "01/15/2024"}
DetZones == {"R-1", "B-2"}
\* parcel_zones: a dict over some of the parcels
DetParcelZones == UNION {[S -> DetZones] : S \in SUBSET {"A", "B"}}

InitDeterminism ==
    /\ InitTree /\ InitFetch
    /\ InitStore /\ InitNorm /\ InitGraph /\ InitTrav /\ InitAlb /\ InitDev /\ InitZone
    /\ InitOv
    /\ \E n \in 1..MaxDetPermits :
          \E parcel \in [1..n -> DetParcels], intake \in [1..n -> DetIntake],
             zones \in DetParcelZones :
             det = [related |-> [i \in 1..n |->
                                   ZonedPermit(DevIdAt(i), parcel[i], intake[i])],
                    zones |-> zones,
                    runs |-> <<>>]

NextDeterminism == FindDevelopmentsBody

SpecDeterminism == InitDeterminism /\ [][NextDeterminism]_vars

\* C27: two runs on the same related set and the same parcel_zones give the
\* same zone, zoning code, reason and qualifying date.
FindDevelopmentsDeterministic ==
    Len(det_runs) = 2 => det_runs[1] = det_runs[2]

====
